---- MODULE Spec2Model ----
(***************************************************************************)
(* Marginalia: context-scoped note synchronisation.                        *)
(*   sidebarLogic  (src/unnamed/part_001): initializeSync, getStorageKey,  *)
(*                 saveNotes, loadNotes (the orchestrator);                *)
(*   FirebaseSync  (src/src/MagicLinkAuth.tsx, lines 186-301): the remote  *)
(*                 sync client, buildFirestoreKey, saveNotes, loadNotes,   *)
(*                 migrateLocalNotes.                                      *)
(* Strings are sequences of one-character strings, so that split, replace  *)
(* and concatenation are computed as the code computes them.               *)
(***************************************************************************)
EXTENDS Integers, Sequences, FiniteSets, TLC

\* ------------------------------------------------------------------ bounds
NumTasks == 2
MaxTicks == 2
MaxListeners == 2
MaxChanges == 2
MaxCommits == 3
MaxTabListeners == 2
MaxTabEvents == 2
MaxCalls == 2
MaxBadgeCalls == 1

\* ------------------------------------------------- documented constants
\* The limits the documentation and the tests state for the sync client.
MAX_NOTES == 100
MAX_NOTE_SIZE == 50000
THROTTLE_MS == 1000
\* One step of the clock, in ms.
TickMs == THROTTLE_MS \div 2

\* ----------------------------------------------------------------- strings
S_notes == <<"n", "o", "t", "e", "s">>
S_browser == <<"b", "r", "o", "w", "s", "e", "r">>
S_domain == <<"d", "o", "m", "a", "i", "n">>
S_subdomain == <<"s", "u", "b">> \o S_domain
S_page == <<"p", "a", "g", "e">>
S_flag == <<"_", "m", "i", "g", "r", "a", "t", "e", "d", "_", "t", "o", "_",
            "f", "i", "r", "e", "b", "a", "s", "e">>

\* String.prototype.indexOf for a one-character needle (0: not found).
RECURSIVE IndexFrom(_, _, _)
IndexFrom(s, ch, i) ==
  IF i > Len(s) THEN 0
  ELSE IF s[i] = ch THEN i
  ELSE IndexFrom(s, ch, i + 1)

\* String.prototype.split(sep) for a one-character separator.
RECURSIVE Split(_, _)
Split(s, sep) ==
  LET i == IndexFrom(s, sep, 1)
  IN  IF i = 0 THEN <<s>>
      ELSE <<SubSeq(s, 1, i - 1)>> \o Split(SubSeq(s, i + 1, Len(s)), sep)

\* Array.prototype.join(sep).
RECURSIVE Join(_, _)
Join(parts, sep) ==
  IF Len(parts) = 0 THEN <<>>
  ELSE IF Len(parts) = 1 THEN parts[1]
  ELSE parts[1] \o <<sep>> \o Join(Tail(parts), sep)

\* Array.prototype.slice(from) with from >= 0 counted from 0, or negative.
Slice(parts, from) ==
  LET n == Len(parts)
      lo == IF from < 0 THEN (IF n + from < 0 THEN 0 ELSE n + from)
            ELSE (IF from > n THEN n ELSE from)
  IN  SubSeq(parts, lo + 1, n)

StartsWith(s, p) == Len(s) >= Len(p) /\ SubSeq(s, 1, Len(p)) = p

\* The replacement without the g flag: the first '/' only.
escapePath_First(path) ==
  [i \in 1..Len(path) |->
     IF path[i] = "/" /\ IndexFrom(path, "/", 1) = i THEN "~" ELSE path[i]]

\* path.replace(/\//g, '~')
escapePath(path) == [i \in 1..Len(path) |-> IF path[i] = "/" THEN "~" ELSE path[i]]

\* ---------------------------------------------------------------- contexts
\* The first two labels taken for the domain.
DomainOf_First(hostname) ==
  LET parts == Split(hostname, ".")
  IN  IF Len(parts) >= 2 THEN Join(SubSeq(parts, 1, 2), ".") ELSE hostname

\* parseUrlContext, from the hostname and the pathname the URL parser gives.
DomainOf(hostname) ==
  LET parts == Split(hostname, ".")
  IN  IF Len(parts) >= 2 THEN Join(Slice(parts, -2), ".") ELSE hostname

parseUrlContext(hostname, pathname) ==
  [domain |-> DomainOf(hostname), subdomain |-> hostname, path |-> pathname]

\* Hostnames and pathnames of pages the user visits:
\* a.io, s.a.io, the IPv6 literal [::1]; /x/y and /x~y.
H_a == <<"a", ".", "i", "o">>
H_sa == <<"s", ".">> \o H_a
H_v6 == <<"[", ":", ":", "1", "]">>
P_xy == <<"/", "x", "/", "y">>
P_xty == <<"/", "x", "~", "y">>

Ctx_sa == parseUrlContext(H_sa, P_xy)
Ctx_sat == parseUrlContext(H_sa, P_xty)
Ctx_v6 == parseUrlContext(H_v6, P_xy)

Scopes == {"browser", "domain", "subdomain", "page"}

\* -------------------------------------------------------- scope-key deriver
\* The page key built from the host alone.
getStorageKey_NoPath(scope, context) ==
  CASE scope = "domain" -> S_notes \o <<":">> \o S_domain \o <<":">> \o context.domain
    [] scope = "subdomain" ->
         S_notes \o <<":">> \o S_subdomain \o <<":">> \o context.subdomain
    [] scope = "page" -> S_notes \o <<":">> \o S_page \o <<":">> \o context.subdomain
    [] OTHER -> S_notes \o <<":">> \o S_browser

getStorageKey(scope, context) ==
  CASE scope = "browser" -> S_notes \o <<":">> \o S_browser
    [] scope = "domain" -> S_notes \o <<":">> \o S_domain \o <<":">> \o context.domain
    [] scope = "subdomain" ->
         S_notes \o <<":">> \o S_subdomain \o <<":">> \o context.subdomain
    [] scope = "page" ->
         S_notes \o <<":">> \o S_page \o <<":">> \o context.subdomain \o context.path
    [] OTHER -> S_notes \o <<":">> \o S_browser

buildFirestoreKey(scope, context) ==
  CASE scope = "browser" -> S_browser
    [] scope = "domain" -> S_domain \o <<"_">> \o context.domain
    [] scope = "subdomain" -> S_subdomain \o <<"_">> \o context.subdomain
    [] scope = "page" ->
         S_page \o <<"_">> \o context.subdomain \o escapePath(context.path)
    [] OTHER -> S_browser

\* The remote key migrateLocalNotes derives from a cache key; <<>> when the
\* entry is skipped (the key is no recognised note key).
NoKey == <<>>
migrateKey(key) ==
  IF ~StartsWith(key, S_notes \o <<":">>) THEN NoKey
  ELSE
    LET parts == Split(key, ":")
    IN  IF Len(parts) < 2 THEN NoKey
        ELSE
          LET scopeType == parts[2]
          IN  IF scopeType = S_browser THEN S_browser
              ELSE IF scopeType = S_domain /\ Len(parts) >= 3
                THEN S_domain \o <<"_">> \o parts[3]
              ELSE IF scopeType = S_subdomain /\ Len(parts) >= 3
                THEN S_subdomain \o <<"_">> \o parts[3]
              ELSE IF scopeType = S_page /\ Len(parts) >= 3
                THEN S_page \o <<"_">> \o escapePath(Join(Slice(parts, 2), ":"))
              ELSE NoKey


\* ------------------------------------------------------------------- notes
\* A Note {id, text, createdAt, updatedAt}; the text is kept as its length.
Note(i, len) == [id |-> i, text |-> len, createdAt |-> 0, updatedAt |-> 0]
NotesOf(n, len) == [i \in 1..n |-> Note(i, len)]

N_one == NotesOf(1, 5)
N_two == NotesOf(2, 7)
N_full == NotesOf(MAX_NOTES, 5)
N_over == NotesOf(MAX_NOTES + 1, 5)
N_max == NotesOf(1, MAX_NOTE_SIZE)
N_long == NotesOf(1, MAX_NOTE_SIZE + 1)

\* The same map with the text left out of the written note.
mapNoteFields_NoText(notes) ==
  [i \in 1..Len(notes) |->
     [id |-> notes[i].id, text |-> 0,
      createdAt |-> notes[i].createdAt, updatedAt |-> notes[i].updatedAt]]

\* notes.map(note => ({id, text, createdAt, updatedAt})) of FirebaseSync.saveNotes
mapNoteFields(notes) ==
  [i \in 1..Len(notes) |->
     [id |-> notes[i].id, text |-> notes[i].text,
      createdAt |-> notes[i].createdAt, updatedAt |-> notes[i].updatedAt]]

\* ------------------------------------------------------------ store values
\* A chrome.storage.local value: an array of notes, or another JSON value
\* (kept as a one-element tuple naming it).
ArrayVal(notes) == [isArray |-> TRUE, val |-> notes]
ObjectVal == [isArray |-> FALSE, val |-> <<"object">>]
TrueVal == [isArray |-> FALSE, val |-> <<"true">>]

\* f with key k set to v (a store keyed by strings or by document paths).
Put(f, k, v) == [x \in DOMAIN f \cup {k} |-> IF x = k THEN v ELSE f[x]]
EmptyStore == [x \in {} |-> 0]

Users == {"u1", "u2"}
NoUser == "none"
NoService == "null"

\* One collection for every user: the path without the user id.
DocPath_Shared(userId, contextKey) == <<"shared", contextKey>>

\* users/${userId}/notes/${contextKey}
DocPath(userId, contextKey) == <<userId, contextKey>>

\* The fallback read forgotten: [] whatever the cache holds.
cacheGetOrEmpty_NoRead(c, key) == <<>>

\* result[key] || []  (a stored value is an array or another truthy value)
cacheGetOrEmpty(c, key) == IF key \in DOMAIN c THEN c[key].val ELSE <<>>

\* The point read taken for "not found": [] whatever the document holds.
remoteNotes_Missing(r, path) == <<>>

\* (data?.notes || []) of a point read; [] when the document does not exist
remoteNotes(r, path) == IF path \in DOMAIN r THEN r[path].notes ELSE <<>>

\* !migrationStatus._migrated_to_firebase
flagUnset(c) == ~(S_flag \in DOMAIN c /\ c[S_flag] = TrueVal)

\* The keys chrome.storage.local can hold: the note keys of the contexts, and
\* the flag; migrateKey of each, computed once.
\* Keys of other shapes an install may hold: 'settings' (no note key),
\* 'notes:tab:x' (no scope of the program), 'notes:domain' (no discriminator).
K_settings == <<"s", "e", "t", "t", "i", "n", "g", "s">>
K_tab == S_notes \o <<":", "t", "a", "b", ":", "x">>
K_domainOnly == S_notes \o <<":">> \o S_domain
OtherKeys == {K_settings, K_tab, K_domainOnly}

StorageKeys ==
  {getStorageKey(x[1], x[2]) : x \in Scopes \X {Ctx_sa, Ctx_sat, Ctx_v6}}
    \cup {S_flag} \cup OtherKeys
migrateKeyOf == [k \in StorageKeys |-> migrateKey(k)]

\* The sweep without the Array.isArray test.
migrationEntries_AnyValue(c) ==
  LET keys == {k \in DOMAIN c : migrateKeyOf[k] # NoKey}
  IN  [k \in keys |-> c[k].val]

\* The sweep passing over the collections of more than MAX_NOTES notes.
migrationEntries_Gated(c) ==
  LET keys == {k \in DOMAIN c : /\ c[k].isArray /\ migrateKeyOf[k] # NoKey
                                /\ Len(c[k].val) <= MAX_NOTES}
  IN  [k \in keys |-> c[k].val]

\* The entries migrateLocalNotes uploads, from a snapshot of the cache.
migrationEntries(c) ==
  LET keys == {k \in DOMAIN c : c[k].isArray /\ migrateKeyOf[k] # NoKey}
  IN  [k \in keys |-> c[k].val]

\* ------------------------------------------------------------------- state
VARIABLES
  cache,        \* chrome.storage.local
  remote,       \* Firestore documents, by DocPath
  authUser,     \* auth.currentUser?.uid, or NoUser
  syncService,  \* the module-level client (its userId), or NoService
  task,         \* the asynchronous calls: one record per logical task
  now,          \* Date.now()
  saveLog,      \* per document, the times of the last two accepted saveNotes writes
  listeners,    \* the onSnapshot listeners registered so far, in order
  changes,      \* how many times a remote document has changed
  app,          \* the sidebar component: its state and its effect's closure
  tabs,         \* the chrome.runtime.onMessage listeners of onTabContextChange
  badge,        \* the badge of the extension icon: its text and its colours
  probe         \* the last call of a function without state, and what it returned

\* What no step of the orchestrator or of the sync client touches.
uiVars == <<listeners, changes, app, tabs, badge, probe>>
vars == <<cache, remote, authUser, syncService, task, now, saveLog,
          listeners, changes, app, tabs, badge, probe>>

Tasks == 1..NumTasks
NoTime == 0 - 1

IdleTask ==
  [op |-> "none", pc |-> "idle", scope |-> "browser", context |-> Ctx_sa,
   notes |-> <<>>, uid |-> NoService, todo |-> EmptyStore, result |-> <<>>,
   error |-> "none", remoteFailed |-> FALSE, inWindow |-> FALSE,
   overlap |-> FALSE, at |-> NoTime, lazy |-> FALSE, sweep |-> "none",
   caller |-> "none", step |-> 0, total |-> 0, loaded |-> <<>>, caught |-> FALSE,
   user |-> NoUser]

\* What the orchestrator is asked about, and with what.
Targets == {<<"page", Ctx_sa>>, <<"domain", Ctx_v6>>}
Payloads == {N_one, N_long}
\* The same, called one after the other: every scope of two pages.
SeqTargets == Scopes \X {Ctx_sa, Ctx_v6}
SeqPayloads == {N_one, N_two}
\* What the sync client is asked about directly, and with what.
ClientTargets == {<<"browser", Ctx_sa>>, <<"page", Ctx_sa>>}
ClientPayloads == {N_one, N_full, N_over, N_max, N_long}

CacheOf(scope, context, notes) == Put(EmptyStore, getStorageKey(scope, context), ArrayVal(notes))
\* Caches an install may hold before its first sync: the legacy single-tier notes.
LegacyCaches == {EmptyStore, CacheOf("domain", Ctx_v6, N_one)}
\* The same, with two pages of one host whose paths differ in '/' and '~'.
ClientCaches ==
  LegacyCaches \cup
    {Put(CacheOf("page", Ctx_sa, N_one), getStorageKey("page", Ctx_sat), ArrayVal(N_two))}

\* A cache with entries of every kind: two collections of the program, a
\* value that is no array under a note key, and arrays under the other keys.
MixedCache ==
  [k \in {getStorageKey("browser", Ctx_sa), getStorageKey("subdomain", Ctx_sa),
          getStorageKey("page", Ctx_sa)} \cup OtherKeys |->
     CASE k = getStorageKey("browser", Ctx_sa) -> ArrayVal(N_one)
       [] k = getStorageKey("subdomain", Ctx_sa) -> ArrayVal(N_two)
       [] k = getStorageKey("page", Ctx_sa) -> ObjectVal
       [] OTHER -> ArrayVal(N_one)]
MigrateCaches == ClientCaches \cup {MixedCache}

\* No context: getCurrentTabContext() resolved null.
NoContext == [domain |-> <<>>, subdomain |-> <<>>, path |-> <<>>]

\* The component before it is mounted.
AppUnmounted ==
  [mounted |-> FALSE, context |-> NoContext, isAuthenticated |-> FALSE,
   client |-> NoService, unsubscribers |-> {}, tabListener |-> 0, commits |-> 0,
   tabValue |-> 0]

\* No context-change listener, no tab event.
NoTabs ==
  [registered |-> <<>>, url |-> NoContext, running |-> <<>>, answers |-> <<>>,
   events |-> 0]
\* A current-tab query the browser has not answered yet, and its answer.
NoAnswer == [answered |-> FALSE, context |-> NoContext]
Answer(c) == [answered |-> TRUE, context |-> c]

\* ------------------------------------------------------- the URL parser
\* new URL(url), as far as parseUrlContext reads it: whether the string is an
\* absolute URL, its hostname and its pathname. Hosts are given in lower
\* case (the parser would lower them).
SchemeChars ==
  {"a", "b", "c", "d", "e", "f", "g", "h", "i", "j", "k", "l", "m", "n", "o",
   "p", "q", "r", "s", "t", "u", "v", "w", "x", "y", "z", "+", "-", "."}
S_http == <<"h", "t", "t", "p">>
S_https == S_http \o <<"s">>
S_file == <<"f", "i", "l", "e">>
\* The schemes whose URLs need a host.
HostSchemes == {S_http, S_https}

\* The first index from i on of a character of chars; Len(s) + 1 when none.
RECURSIVE FirstOf(_, _, _)
FirstOf(s, chars, i) ==
  IF i > Len(s) THEN Len(s) + 1
  ELSE IF s[i] \in chars THEN i
  ELSE FirstOf(s, chars, i + 1)

\* s without its leading '/' characters.
RECURSIVE StripSlashes(_)
StripSlashes(s) == IF s # <<>> /\ Head(s) = "/" THEN StripSlashes(Tail(s)) ELSE s

\* The hostname of an authority: without user info and without port (an
\* IPv6 literal keeps its brackets).
HostOf(authority) ==
  LET at == IndexFrom(authority, "@", 1)
      hp == SubSeq(authority, at + 1, Len(authority))
  IN  IF hp # <<>> /\ Head(hp) = "["
        THEN SubSeq(hp, 1, FirstOf(hp, {"]"}, 1))
        ELSE SubSeq(hp, 1, FirstOf(hp, {":"}, 1) - 1)

InvalidURL == [ok |-> FALSE, hostname |-> <<>>, pathname |-> <<>>]

URL(url) ==
  LET c == IndexFrom(url, ":", 1)
      scheme == SubSeq(url, 1, c - 1)
      rest == SubSeq(url, c + 1, Len(url))
      hier == SubSeq(rest, 1, FirstOf(rest, {"?", "#"}, 1) - 1)
      withHost == scheme \in HostSchemes
                    \/ (Len(hier) >= 2 /\ SubSeq(hier, 1, 2) = <<"/", "/">>)
      after == IF scheme \in HostSchemes THEN StripSlashes(hier)
               ELSE SubSeq(hier, 3, Len(hier))
      e == FirstOf(after, {"/"}, 1)
      host == HostOf(SubSeq(after, 1, e - 1))
      path == SubSeq(after, e, Len(after))
  IN  IF c <= 1 \/ \E i \in 1..(c - 1) : url[i] \notin SchemeChars THEN InvalidURL
      ELSE IF ~withHost THEN [ok |-> TRUE, hostname |-> <<>>, pathname |-> hier]
      ELSE IF scheme \in HostSchemes /\ host = <<>> THEN InvalidURL
      ELSE [ok |-> TRUE, hostname |-> host,
            pathname |-> IF path = <<>> /\ scheme \in HostSchemes \cup {S_file}
                           THEN <<"/">> ELSE path]

\* What a function that may return null, or raise, gives its caller.
NullContext == [isNull |-> TRUE, raised |-> FALSE, context |-> NoContext]
Raised == [isNull |-> FALSE, raised |-> TRUE, context |-> NoContext]
Resolved(c) == [isNull |-> FALSE, raised |-> FALSE, context |-> c]

\* parseUrlContext without its try/catch.
parseUrl_NoCatch(url) ==
  LET u == URL(url)
  IN  IF u.ok THEN Resolved(parseUrlContext(u.hostname, u.pathname)) ELSE Raised

\* parseUrlContext(url): null when new URL(url) throws.
parseUrl(url) ==
  LET u == URL(url)
  IN  IF u.ok THEN Resolved(parseUrlContext(u.hostname, u.pathname)) ELSE NullContext

\* The callback of chrome.tabs.query in getCurrentTabContext: tabs is what
\* the query found (a tab may have no url).
getCurrentTabContext(tabsFound) ==
  IF Len(tabsFound) > 0 /\ "url" \in DOMAIN tabsFound[1] /\ tabsFound[1].url # <<>>
    THEN parseUrl(tabsFound[1].url) ELSE NullContext

\* The strings given to the resolver.
Sl == <<":", "/", "/">>
U_sa == S_http \o Sl \o H_sa \o P_xy
U_sat == S_https \o Sl \o H_sa \o P_xty
U_a == S_http \o Sl \o H_a
U_port == S_https \o Sl \o H_sa \o <<":", "8", "0", "/", "?", "q", "#", "/", "h">>
U_v6 == S_http \o Sl \o H_v6 \o <<":", "8", "0">> \o P_xy
U_host == S_http \o Sl \o <<"h", "o", "s", "t", "/">>
U_file == S_file \o Sl \o P_xy
U_about == <<"a", "b", "o", "u", "t", ":", "b", "l", "a", "n", "k">>
U_none == <<>>
U_bare == H_sa \o P_xy
U_words == <<"n", "o", " ", "u", "r", "l">>
U_nohost == S_http \o Sl
AbsoluteUrls == {U_sa, U_sat, U_a, U_port, U_v6, U_host, U_file, U_about}
OtherStrings == {U_none, P_xy, U_bare, U_words, U_nohost}
Urls == AbsoluteUrls \cup OtherStrings

\* What chrome.tabs.query may find: no tab, a tab without url, a tab with one.
TabsFound ==
  {<<>>, <<[id |-> 1]>>, <<[id |-> 1, url |-> <<>>]>>}
    \cup {<<[id |-> 1, url |-> u]>> : u \in {U_sa, U_about, U_words}}

\* The scopes a caller may pass, with one that is no NoteScope.
AnyScopes == Scopes \cup {"tab"}
\* The contexts the resolver gives.
Contexts == {parseUrl(u).context : u \in AbsoluteUrls}

\* The badge of a fresh install: no text, the browser's colours.
NoBadge == [text |-> <<>>, background |-> "default", color |-> "default"]
\* No function called yet.
NoProbe == [fn |-> "none"]

\* A badge showing a count: the browser keeps it while the background
\* script is stopped and started again.
ShownBadge == [text |-> <<"5">>, background |-> "#4a9eff", color |-> "#ffffff"]

InitState(caches, users, badges) ==
  /\ cache \in caches
  /\ remote = EmptyStore
  /\ authUser \in users
  /\ syncService = NoService
  /\ task = [t \in Tasks |-> IdleTask]
  /\ now = 0
  /\ saveLog = EmptyStore
  /\ listeners = <<>>
  /\ changes = 0
  /\ app = AppUnmounted
  /\ tabs = NoTabs
  /\ badge \in badges
  /\ probe = NoProbe

InitWith(caches, users) == InitState(caches, users, {NoBadge})

\* A sidebar that has just been opened, signed in or not.
Init == InitWith(LegacyCaches, {NoUser, "u1"})
\* A test harness holding a client of user u1.
InitClient == InitWith(ClientCaches, {"u1"})
\* The same, for the caches a sweep may find.
InitMigrate == InitWith(MigrateCaches, {"u1"})

\* A task carries one call; the tasks are taken in order.
CanStart(t) == task[t].pc = "idle" /\ (IF t = 1 THEN TRUE ELSE task[t - 1].pc # "idle")
Quiet == \A t \in Tasks : task[t].pc \in {"idle", "done"}

\* A fresh call record; user: who is signed in when the call is made.
Call(op, scope, context, notes) ==
  [IdleTask EXCEPT !.op = op, !.scope = scope, !.context = context,
                   !.notes = notes, !.user = authUser]

\* The document the client of user uid addresses for the call's scope-context.
PathOf(rec) == DocPath(rec.uid, buildFirestoreKey(rec.scope, rec.context))

\* Whether the document had an accepted saveNotes write less than THROTTLE_MS ago.
InWindow(path) == path \in DOMAIN saveLog /\ now - saveLog[path][2] < THROTTLE_MS

\* Whether another task has a saveNotes write to the same document in flight.
Overlaps(t, path) ==
  \E o \in Tasks \ {t} : task[o].pc = "c_save" /\ PathOf(task[o]) = path

\* The client's saveNotes is called: the key and the document are built and
\* setDoc is issued; the call suspends at the write.
issueClientSave(t, rec, uid) ==
  LET r == [rec EXCEPT !.uid = uid]
  IN  [r EXCEPT !.pc = "c_save", !.inWindow = InWindow(PathOf(r)),
                !.overlap = Overlaps(t, PathOf(r))]

\* The client's loadNotes is called: getDoc is issued.
issueClientLoad(rec, uid) == [rec EXCEPT !.uid = uid, !.pc = "c_load"]

\* What follows initializeSync in its caller, once it has returned normally.
afterInit(t, rec, svc) ==
  CASE rec.op = "saveNotes" ->
         IF svc # NoService THEN issueClientSave(t, rec, svc)
         ELSE [rec EXCEPT !.pc = "save_local"]
    [] rec.op = "loadNotes" ->
         IF svc # NoService THEN issueClientLoad(rec, svc)
         ELSE [rec EXCEPT !.pc = "load_local"]
    [] OTHER -> [rec EXCEPT !.pc = "done"]

\* The lines 13-23 of initializeSync, run synchronously by its caller: the
\* new record and the new syncService.
beginInit(t, rec) ==
  LET r == [rec EXCEPT !.lazy = TRUE]
  IN  IF authUser = NoUser THEN <<afterInit(t, r, syncService), syncService>>
      ELSE <<[r EXCEPT !.pc = "init_flag"], authUser>>

\* The call goes on; it touches neither the listeners nor the component.
Finish(t, rec) == task' = [task EXCEPT ![t] = rec] /\ UNCHANGED uiVars

\* ------------------------------------------------- the authentication state
SignIn(u) ==
  /\ authUser # u
  /\ authUser' = u
  /\ UNCHANGED <<cache, remote, syncService, task, now, saveLog>>
  /\ UNCHANGED uiVars

SignOut ==
  /\ authUser # NoUser
  /\ authUser' = NoUser
  /\ UNCHANGED <<cache, remote, syncService, task, now, saveLog>>
  /\ UNCHANGED uiVars

Tick ==
  /\ now < MaxTicks * TickMs
  /\ now' = now + TickMs
  /\ UNCHANGED <<cache, remote, authUser, syncService, task, saveLog>>
  /\ UNCHANGED uiVars

\* ------------------------------------------------ the orchestrator's calls
\* saveNotes(scope, context, notes) up to its first suspension.
StartSave(t, scope, context, notes) ==
  LET rec == Call("saveNotes", scope, context, notes)
      b == IF syncService = NoService THEN beginInit(t, rec)
           ELSE <<issueClientSave(t, rec, syncService), syncService>>
  IN  /\ CanStart(t)
      /\ syncService' = b[2]
      /\ Finish(t, b[1])
      /\ UNCHANGED <<cache, remote, authUser, now, saveLog>>

\* loadNotes(scope, context) up to its first suspension.
StartLoad(t, scope, context) ==
  LET rec == Call("loadNotes", scope, context, <<>>)
      b == IF syncService = NoService THEN beginInit(t, rec)
           ELSE <<issueClientLoad(rec, syncService), syncService>>
  IN  /\ CanStart(t)
      /\ syncService' = b[2]
      /\ Finish(t, b[1])
      /\ UNCHANGED <<cache, remote, authUser, now, saveLog>>

\* initializeSync() called by the background script (on load, on auth change).
StartInit(t) ==
  LET b == beginInit(t, Call("initializeSync", "browser", Ctx_sa, <<>>))
  IN  /\ CanStart(t)
      /\ syncService' = b[2]
      /\ Finish(t, b[1])
      /\ UNCHANGED <<cache, remote, authUser, now, saveLog>>

\* initializeSync resumes with the migration flag read from the cache.
InitFlag(t) ==
  /\ task[t].pc = "init_flag"
  /\ Finish(t, IF flagUnset(cache)
                 THEN [task[t] EXCEPT !.pc = "mig_scan", !.uid = syncService,
                                      !.sweep = "first"]
                 ELSE afterInit(t, task[t], syncService))
  /\ UNCHANGED <<cache, remote, authUser, syncService, now, saveLog>>

\* ----------------------------------------------------- migrateLocalNotes
\* The flag written at once, whatever is left to upload.
sweepPc_FlagFirst(todo) == "mig_flag"

\* The for loop of the sweep: the next entry, or the flag after the last one.
sweepPc(todo) == IF DOMAIN todo = {} THEN "mig_flag" ELSE "mig_write"

\* chrome.storage.local.get(null) resolves: the sweep holds its snapshot.
MigScan(t) ==
  /\ task[t].pc = "mig_scan"
  /\ LET entries == migrationEntries(cache)
     IN  Finish(t, [task[t] EXCEPT !.todo = entries, !.pc = sweepPc(entries)])
  /\ UNCHANGED <<cache, remote, authUser, syncService, now, saveLog>>

\* The document one migrated entry is written to.
migrateDoc(rec, key) == [notes |-> rec.todo[key], updatedAt |-> now]

\* setDoc of one entry of the sweep succeeds.
MigWriteOk(t, key) ==
  LET rec == task[t]
      rest == [k \in DOMAIN rec.todo \ {key} |-> rec.todo[k]]
  IN  /\ rec.pc = "mig_write"
      /\ key \in DOMAIN rec.todo
      /\ remote' = Put(remote, DocPath(rec.uid, migrateKeyOf[key]), migrateDoc(rec, key))
      /\ Finish(t, [rec EXCEPT !.todo = rest,
                      !.pc = sweepPc(rest)])
      /\ UNCHANGED <<cache, authUser, syncService, now, saveLog>>

\* The same, with the flag written on the way out of the failed sweep.
MigWriteFail_Flagged(t) ==
  /\ task[t].pc = "mig_write"
  /\ cache' = Put(cache, S_flag, TrueVal)
  /\ Finish(t, [task[t] EXCEPT !.pc = "done", !.error = "transport",
                  !.remoteFailed = TRUE, !.todo = EmptyStore])
  /\ UNCHANGED <<remote, authUser, syncService, now, saveLog>>

\* setDoc of the sweep fails: migrateLocalNotes throws, and so does
\* initializeSync, up to the caller of saveNotes or loadNotes.
MigWriteFail(t) ==
  /\ task[t].pc = "mig_write"
  /\ Finish(t, [task[t] EXCEPT !.pc = "done", !.error = "transport",
                  !.remoteFailed = TRUE, !.todo = EmptyStore])
  /\ UNCHANGED <<cache, remote, authUser, syncService, now, saveLog>>

\* chrome.storage.local.set({_migrated_to_firebase: true}), and the return.
MigFlag(t) ==
  /\ task[t].pc = "mig_flag"
  /\ cache' = Put(cache, S_flag, TrueVal)
  /\ Finish(t, afterInit(t, task[t], syncService))
  /\ UNCHANGED <<remote, authUser, syncService, now, saveLog>>

\* ------------------------------------------------ the sync client's calls
\* The document FirebaseSync.saveNotes writes.
saveDoc(rec) == [notes |-> mapNoteFields(rec.notes), updatedAt |-> now]

\* The same without the orchestrator's try/catch: the failure is raised.
afterClientSave_Rethrow(rec, failed) ==
  IF failed THEN [rec EXCEPT !.pc = "done", !.remoteFailed = TRUE, !.error = "transport"]
  ELSE IF rec.op = "saveNotes" THEN [rec EXCEPT !.pc = "save_local"]
  ELSE [rec EXCEPT !.pc = "done"]

\* What follows the client's saveNotes in its caller.
afterClientSave(rec, failed) ==
  IF rec.op = "saveNotes"
    THEN [rec EXCEPT !.pc = "save_local", !.remoteFailed = failed]
    ELSE [rec EXCEPT !.pc = "done", !.remoteFailed = failed,
                     !.error = IF failed THEN "transport" ELSE "none"]

\* setDoc of FirebaseSync.saveNotes succeeds.
ClientSaveOk(t) ==
  LET rec == task[t]
      path == PathOf(rec)
      last == IF path \in DOMAIN saveLog THEN saveLog[path][2] ELSE NoTime
  IN  /\ rec.pc = "c_save"
      /\ remote' = Put(remote, path, saveDoc(rec))
      /\ saveLog' = Put(saveLog, path, <<last, now>>)
      /\ Finish(t, [afterClientSave(rec, FALSE) EXCEPT !.at = now])
      /\ UNCHANGED <<cache, authUser, syncService, now>>

\* The same, with the time of the attempt kept as the time of a write.
ClientSaveFail_Stamps(t) ==
  LET path == PathOf(task[t])
      last == IF path \in DOMAIN saveLog THEN saveLog[path][2] ELSE NoTime
  IN  /\ task[t].pc = "c_save"
      /\ saveLog' = Put(saveLog, path, <<last, now>>)
      /\ Finish(t, afterClientSave(task[t], TRUE))
      /\ UNCHANGED <<cache, remote, authUser, syncService, now>>

\* setDoc of FirebaseSync.saveNotes fails (transport, auth, server rules).
ClientSaveFail(t) ==
  /\ task[t].pc = "c_save"
  /\ Finish(t, afterClientSave(task[t], TRUE))
  /\ UNCHANGED <<cache, remote, authUser, syncService, now, saveLog>>

\* getDoc of FirebaseSync.loadNotes succeeds.
ClientLoadOk(t) ==
  LET rec == task[t]
      got == [rec EXCEPT !.result = remoteNotes(remote, PathOf(rec))]
  IN  /\ rec.pc = "c_load"
      /\ Finish(t, [got EXCEPT !.pc = IF rec.op = "loadNotes" THEN "load_refresh"
                                      ELSE "done"])
      /\ UNCHANGED <<cache, remote, authUser, syncService, now, saveLog>>

\* getDoc of FirebaseSync.loadNotes fails.
ClientLoadFail(t) ==
  LET rec == task[t]
  IN  /\ rec.pc = "c_load"
      /\ Finish(t, IF rec.op = "loadNotes"
                     THEN [rec EXCEPT !.pc = "load_local", !.remoteFailed = TRUE]
                     ELSE [rec EXCEPT !.pc = "done", !.remoteFailed = TRUE,
                                      !.error = "transport"])
      /\ UNCHANGED <<cache, remote, authUser, syncService, now, saveLog>>

\* ------------------------------------- the orchestrator's local-cache steps
\* chrome.storage.local.set({[key]: notes}) of saveNotes, and the return.
SaveLocal(t) ==
  LET rec == task[t]
  IN  /\ rec.pc = "save_local"
      /\ cache' = Put(cache, getStorageKey(rec.scope, rec.context), ArrayVal(rec.notes))
      /\ Finish(t, [rec EXCEPT !.pc = "done"])
      /\ UNCHANGED <<remote, authUser, syncService, now, saveLog>>

\* chrome.storage.local.set({[key]: notes}) of loadNotes, and the return.
LoadRefresh(t) ==
  LET rec == task[t]
  IN  /\ rec.pc = "load_refresh"
      /\ cache' = Put(cache, getStorageKey(rec.scope, rec.context), ArrayVal(rec.result))
      /\ Finish(t, [rec EXCEPT !.pc = "done"])
      /\ UNCHANGED <<remote, authUser, syncService, now, saveLog>>

\* chrome.storage.local.get(key) of loadNotes, and the return.
LoadLocal(t) ==
  LET rec == task[t]
  IN  /\ rec.pc = "load_local"
      /\ Finish(t, [rec EXCEPT !.pc = "done",
                      !.result = cacheGetOrEmpty(cache, getStorageKey(rec.scope, rec.context))])
      /\ UNCHANGED <<cache, remote, authUser, syncService, now, saveLog>>

\* ------------------------------------------------ direct calls of a client
\* new FirebaseSync(u).saveNotes(scope, context, notes)
StartClientSave(t, u, scope, context, notes) ==
  /\ CanStart(t)
  /\ Finish(t, issueClientSave(t, Call("client.saveNotes", scope, context, notes), u))
  /\ UNCHANGED <<cache, remote, authUser, syncService, now, saveLog>>

\* new FirebaseSync(u).loadNotes(scope, context)
StartClientLoad(t, u, scope, context) ==
  /\ CanStart(t)
  /\ Finish(t, issueClientLoad(Call("client.loadNotes", scope, context, <<>>), u))
  /\ UNCHANGED <<cache, remote, authUser, syncService, now, saveLog>>

\* new FirebaseSync(u).migrateLocalNotes()
StartClientMigrate(t, u) ==
  /\ CanStart(t)
  /\ Finish(t, [Call("client.migrateLocalNotes", "browser", Ctx_sa, <<>>)
                  EXCEPT !.uid = u, !.pc = "mig_scan",
                         !.sweep = IF flagUnset(cache) THEN "first" ELSE "again"])
  /\ UNCHANGED <<cache, remote, authUser, syncService, now, saveLog>>

\* ------------------------------------------------------------- the badge
Digits == <<"0", "1", "2", "3", "4", "5", "6", "7", "8", "9">>

\* Number.prototype.toString() of a count.
RECURSIVE toString(_)
toString(n) ==
  IF n < 10 THEN <<Digits[n + 1]>>
  ELSE toString(n \div 10) \o <<Digits[(n % 10) + 1]>>

formatBadgeText(count) ==
  IF count = 0 THEN <<>>
  ELSE IF count > 99 THEN <<"9", "9", "+">>
  ELSE toString(count)

\* browser.action.setBadgeText({ text: '' })
clearBadge(b) == [b EXCEPT !.text = <<>>]

\* Every scope counted, the browser scope too.
contextualScopes_All == <<"page", "subdomain", "domain", "browser">>

\* const contextualScopes = ['page', 'subdomain', 'domain']
contextualScopes == <<"page", "subdomain", "domain">>

\* A catch that clears the badge.
badgeOnError_Clear(b) == [b EXCEPT !.text = <<>>]

\* catch (error) { console.error(...) }: the badge is left as it is.
badgeOnError(b) == b

\* The URLs of the active tab when the badge is updated.
BadgeTabs == {<<>>, <<[id |-> 1, url |-> U_sa]>>}

\* loadNotes(scope, context) of step k of updateBadge, up to its first
\* suspension: the record and the syncService afterwards.
badgeLoad(t, rec, k, context) ==
  LET call == [Call("loadNotes", contextualScopes[k], context, <<>>) EXCEPT
                 !.caller = "updateBadge", !.step = k, !.total = rec.total,
                 !.loaded = rec.loaded]
  IN  IF syncService = NoService THEN beginInit(t, call)
      ELSE <<issueClientLoad(call, syncService), syncService>>

\* updateBadge() is called: chrome.tabs.query is issued.
StartUpdateBadge(t) ==
  /\ CanStart(t)
  /\ Cardinality({o \in Tasks : task[o].caller = "updateBadge"}) < MaxBadgeCalls
  /\ task' = [task EXCEPT ![t] = [IdleTask EXCEPT !.op = "updateBadge",
                                     !.pc = "badge_query", !.caller = "updateBadge"]]
  /\ UNCHANGED <<cache, remote, authUser, syncService, now, saveLog,
                 listeners, changes, app, tabs, badge, probe>>

\* getCurrentTabContext() resolves: without context the badge is cleared;
\* with one, the first loadNotes is called.
BadgeContext(t, found) ==
  LET c == getCurrentTabContext(found)
      b == badgeLoad(t, task[t], 1, c.context)
  IN  /\ task[t].pc = "badge_query"
      /\ IF c.isNull
           THEN /\ badge' = clearBadge(badge)
                /\ task' = [task EXCEPT ![t].pc = "done"]
                /\ UNCHANGED syncService
           ELSE /\ task' = [task EXCEPT ![t] = b[1]]
                /\ syncService' = b[2]
                /\ UNCHANGED badge
      /\ UNCHANGED <<cache, remote, authUser, now, saveLog,
                     listeners, changes, app, tabs, probe>>

\* updateBadge after its call has ended, as far as the task record goes.
badgeEnd(rec, caught) ==
  [rec EXCEPT !.op = "updateBadge", !.pc = "done", !.error = "none",
              !.caught = caught]

\* A loadNotes of updateBadge has settled. Rejected: the catch. Resolved:
\* its notes are counted, and the next scope is loaded, or, after the last
\* one, setBadgeText is called with the formatted count.
BadgeNext(t) ==
  LET rec == task[t]
      counted == [rec EXCEPT !.total = @ + Len(rec.result),
                             !.loaded = Append(@, <<rec.scope, Len(rec.result)>>)]
      b == badgeLoad(t, counted, rec.step + 1, rec.context)
      text == formatBadgeText(counted.total)
  IN  /\ rec.caller = "updateBadge" /\ rec.op = "loadNotes" /\ rec.pc = "done"
      /\ IF rec.error # "none"
           THEN /\ badge' = badgeOnError(badge)
                /\ task' = [task EXCEPT ![t] = badgeEnd(rec, TRUE)]
                /\ UNCHANGED syncService
           ELSE IF rec.step < Len(contextualScopes)
           THEN /\ task' = [task EXCEPT ![t] = b[1]]
                /\ syncService' = b[2]
                /\ UNCHANGED badge
           ELSE /\ badge' = [badge EXCEPT !.text = text]
                /\ task' = [task EXCEPT ![t] =
                              IF text # <<>>
                                THEN [counted EXCEPT !.op = "updateBadge", !.pc = "badge_bg"]
                                ELSE badgeEnd(counted, FALSE)]
                /\ UNCHANGED syncService
      /\ UNCHANGED <<cache, remote, authUser, now, saveLog,
                     listeners, changes, app, tabs, probe>>

\* setBadgeBackgroundColor({ color: '#4a9eff' }) after a non-empty text
BadgeBackground(t) ==
  /\ task[t].pc = "badge_bg"
  /\ badge' = [badge EXCEPT !.background = "#4a9eff"]
  /\ task' = [task EXCEPT ![t].pc = "badge_fg"]
  /\ UNCHANGED <<cache, remote, authUser, syncService, now, saveLog,
                 listeners, changes, app, tabs, probe>>

\* setBadgeTextColor({ color: '#ffffff' }), and the return.
BadgeTextColor(t) ==
  /\ task[t].pc = "badge_fg"
  /\ badge' = [badge EXCEPT !.color = "#ffffff"]
  /\ task' = [task EXCEPT ![t] = badgeEnd(task[t], FALSE)]
  /\ UNCHANGED <<cache, remote, authUser, syncService, now, saveLog,
                 listeners, changes, app, tabs, probe>>

\* ---------------------------------------------------------- specifications
\* The steps of a migrateLocalNotes in progress.
Sweep(t) ==
  \/ MigScan(t)
  \/ \E key \in DOMAIN task[t].todo : MigWriteOk(t, key)
  \/ MigWriteFail(t)
  \/ MigFlag(t)

\* The steps every call resumes with, whoever started it.
Resume(t) ==
  \/ Sweep(t)
  \/ ClientSaveOk(t)
  \/ ClientSaveFail(t)
  \/ ClientLoadOk(t)
  \/ ClientLoadFail(t)

\* The orchestrator under concurrent calls, for each authentication state.
Next ==
  \/ \E t \in Tasks :
       \/ \E x \in Targets, n \in Payloads : StartSave(t, x[1], x[2], n)
       \/ \E x \in Targets : StartLoad(t, x[1], x[2])
       \/ StartInit(t)
       \/ InitFlag(t)
       \/ Resume(t)
       \/ SaveLocal(t)
       \/ LoadRefresh(t)
       \/ LoadLocal(t)

Spec == Init /\ [][Next]_vars

\* The event loop runs every continuation that is ready: a call that has
\* started goes on to its end. Nothing obliges the user to start a call.
Continue(t) ==
  \/ InitFlag(t)
  \/ Resume(t)
  \/ SaveLocal(t)
  \/ LoadRefresh(t)
  \/ LoadLocal(t)

SpecLive == Init /\ [][Next]_vars /\ \A t \in Tasks : WF_vars(Continue(t))

\* The orchestrator with the user signing in and out between its steps,
\* asked about one page with one collection.
AuthTargets == {<<"page", Ctx_sa>>}
AuthPayloads == {N_one}

NextAuth ==
  \/ \E u \in Users : SignIn(u)
  \/ SignOut
  \/ \E t \in Tasks :
       \/ \E x \in AuthTargets, n \in AuthPayloads : StartSave(t, x[1], x[2], n)
       \/ \E x \in AuthTargets : StartLoad(t, x[1], x[2])
       \/ StartInit(t)
       \/ Continue(t)

SpecAuth == Init /\ [][NextAuth]_vars

\* The background script, just started, updating the badge. The
\* caches: none, thirteen notes of one page beside browser notes, and a
\* hundred notes of the page beside one of its domain.
N_twelve == NotesOf(12, 5)
BadgeCaches ==
  {EmptyStore,
   Put(Put(CacheOf("page", Ctx_sa, N_twelve), getStorageKey("subdomain", Ctx_sa),
           ArrayVal(N_one)),
       getStorageKey("browser", Ctx_sa), ArrayVal(N_two)),
   Put(CacheOf("page", Ctx_sa, N_full), getStorageKey("domain", Ctx_sa), ArrayVal(N_one))}

InitBadge == InitState(BadgeCaches, {NoUser, "u1"}, {NoBadge, ShownBadge})

\* The steps a loadNotes resumes with.
LoadSteps(t) ==
  \/ InitFlag(t)
  \/ Sweep(t)
  \/ ClientLoadOk(t)
  \/ ClientLoadFail(t)
  \/ LoadRefresh(t)
  \/ LoadLocal(t)

NextBadge ==
  \E t \in Tasks :
    \/ StartUpdateBadge(t)
    \/ \E found \in BadgeTabs : BadgeContext(t, found)
    \/ BadgeNext(t)
    \/ BadgeBackground(t)
    \/ BadgeTextColor(t)
    \/ LoadSteps(t)

SpecBadge == InitBadge /\ [][NextBadge]_vars

\* The sidebar of a signed-in user opens on an install with legacy notes:
\* its load effects call loadNotes for the scopes of the page at once.
MountTargets == {<<"page", Ctx_sa>>, <<"subdomain", Ctx_sa>>}
MountCache ==
  Put(CacheOf("page", Ctx_sa, N_two), getStorageKey("subdomain", Ctx_sa), ArrayVal(N_one))

InitMount == InitWith({MountCache}, {"u1"})

NextMount ==
  \E t \in Tasks :
    \/ \E x \in MountTargets : StartLoad(t, x[1], x[2])
    \/ LoadSteps(t)

SpecMount == InitMount /\ [][NextMount]_vars

\* The orchestrator called sequentially: a call starts when none is pending.
NextSeq ==
  \/ \E t \in Tasks :
       \/ \E x \in SeqTargets, n \in SeqPayloads : Quiet /\ StartSave(t, x[1], x[2], n)
       \/ \E x \in SeqTargets : Quiet /\ StartLoad(t, x[1], x[2])
       \/ Quiet /\ StartInit(t)
       \/ InitFlag(t)
       \/ Resume(t)
       \/ SaveLocal(t)
       \/ LoadRefresh(t)
       \/ LoadLocal(t)

SpecSeq == Init /\ [][NextSeq]_vars

\* One user's sync client called directly, with the clock running.
NextClient ==
  \/ Tick
  \/ \E t \in Tasks :
       \/ \E x \in ClientTargets, n \in ClientPayloads :
            StartClientSave(t, "u1", x[1], x[2], n)
       \/ \E x \in ClientTargets : StartClientLoad(t, "u1", x[1], x[2])
       \/ StartClientMigrate(t, "u1")
       \/ Resume(t)

SpecClient == InitClient /\ [][NextClient]_vars

\* The sync clients of two users on one install, called directly.
NextUsers ==
  \E t \in Tasks :
    \/ \E u \in Users, x \in AuthTargets, n \in AuthPayloads :
         StartClientSave(t, u, x[1], x[2], n)
    \/ \E u \in Users, x \in AuthTargets : StartClientLoad(t, u, x[1], x[2])
    \/ \E u \in Users : StartClientMigrate(t, u)
    \/ Resume(t)

SpecUsers == Init /\ [][NextUsers]_vars

\* One user's migrateLocalNotes called directly, also more than once.
NextMigrate ==
  \E t \in Tasks :
    \/ StartClientMigrate(t, "u1")
    \/ Sweep(t)

SpecMigrate == InitMigrate /\ [][NextMigrate]_vars

\* The background script calling initializeSync(), also again after a
\* failure, on an install that holds legacy notes.
NextInit ==
  \E t \in Tasks :
    \/ StartInit(t)
    \/ InitFlag(t)
    \/ Sweep(t)

SpecInit == InitMigrate /\ [][NextInit]_vars

\* A client saving browser notes while it migrates an install whose legacy
\* collections are over the limits of a live write: 101 browser notes, and
\* a page note of 50,001 units.
BackfillCache ==
  Put(CacheOf("browser", Ctx_sa, N_over), getStorageKey("page", Ctx_sa), ArrayVal(N_long))
InitBackfill == InitWith({BackfillCache}, {"u1"})

NextBackfill ==
  \/ Tick
  \/ \E t \in Tasks :
       \/ StartClientSave(t, "u1", "browser", Ctx_sa, N_one)
       \/ StartClientMigrate(t, "u1")
       \/ Sweep(t)
       \/ ClientSaveOk(t)
       \/ ClientSaveFail(t)

SpecBackfill == InitBackfill /\ [][NextBackfill]_vars
\* ------------------------------------- the functions without state, called
CallParse(url) ==
  /\ probe' = [fn |-> "parseUrlContext", url |-> url, out |-> parseUrl(url), calls |-> 1]
  /\ UNCHANGED <<cache, remote, authUser, syncService, task, now, saveLog,
                 listeners, changes, app, tabs, badge>>

CallTabContext(found) ==
  /\ probe' = [fn |-> "getCurrentTabContext", found |-> found,
               out |-> getCurrentTabContext(found), calls |-> 1]
  /\ UNCHANGED <<cache, remote, authUser, syncService, task, now, saveLog,
                 listeners, changes, app, tabs, badge>>

CallStorageKey(scope, context) ==
  /\ probe' = [fn |-> "getStorageKey", scope |-> scope, context |-> context,
               out |-> getStorageKey(scope, context), calls |-> 1]
  /\ UNCHANGED <<cache, remote, authUser, syncService, task, now, saveLog,
                 listeners, changes, app, tabs, badge>>

CallFirestoreKey(scope, context) ==
  /\ probe' = [fn |-> "buildFirestoreKey", scope |-> scope, context |-> context,
               out |-> buildFirestoreKey(scope, context), calls |-> 1]
  /\ UNCHANGED <<cache, remote, authUser, syncService, task, now, saveLog,
                 listeners, changes, app, tabs, badge>>

\* Both key functions called for two scope-contexts, as two saveNotes calls
\* of the orchestrator do: each gets its remote key and its local key.
CallKeys(scope1, context1, scope2, context2) ==
  /\ probe' = [fn |-> "keys", scopes |-> <<scope1, scope2>>,
               contexts |-> <<context1, context2>>,
               out |-> [local |-> <<getStorageKey(scope1, context1),
                                    getStorageKey(scope2, context2)>>,
                        remote |-> <<buildFirestoreKey(scope1, context1),
                                     buildFirestoreKey(scope2, context2)>>],
               calls |-> 1]
  /\ UNCHANGED <<cache, remote, authUser, syncService, task, now, saveLog,
                 listeners, changes, app, tabs, badge>>

\* The same function called once more with the same arguments.
CallAgain ==
  /\ probe.fn # "none" /\ probe.calls < MaxCalls
  /\ probe' =
       [probe EXCEPT
          !.calls = @ + 1,
          !.out = CASE probe.fn = "parseUrlContext" -> parseUrl(probe.url)
                    [] probe.fn = "getCurrentTabContext" -> getCurrentTabContext(probe.found)
                    [] probe.fn = "getStorageKey" -> getStorageKey(probe.scope, probe.context)
                    [] probe.fn = "buildFirestoreKey" ->
                         buildFirestoreKey(probe.scope, probe.context)]
  /\ UNCHANGED <<cache, remote, authUser, syncService, task, now, saveLog,
                 listeners, changes, app, tabs, badge>>

InitPure == InitWith({EmptyStore}, {NoUser})

NextPure ==
  \/ \E u \in Urls : CallParse(u)
  \/ \E found \in TabsFound : CallTabContext(found)
  \/ \E scope \in AnyScopes, context \in Contexts : CallStorageKey(scope, context)
  \/ \E scope \in AnyScopes, context \in Contexts : CallFirestoreKey(scope, context)
  \/ CallAgain

SpecPure == InitPure /\ [][NextPure]_vars

\* The two key functions over pairs of scope-contexts: every scope of three
\* pages, two of them of one host with paths that differ in '/' and '~'.
KeyContexts == {Ctx_sa, Ctx_sat, Ctx_v6}

NextKeys ==
  \E scope1 \in AnyScopes, context1 \in KeyContexts,
     scope2 \in AnyScopes, context2 \in KeyContexts :
    CallKeys(scope1, context1, scope2, context2)

SpecKeys == InitPure /\ [][NextKeys]_vars

\* ------------------------------------------------ real-time subscriptions
\* A document snapshot is the document's data; NoDoc when it does not exist.
NoDoc == [exists |-> FALSE]
snapshotOf(r, path) == IF path \in DOMAIN r THEN r[path] ELSE NoDoc

\* The notes field passed on as it is, also when there is none.
snapshotNotes_Raw(snap) ==
  IF "notes" \in DOMAIN snap THEN snap.notes ELSE <<"undefined">>

\* (data?.notes || []) of the onSnapshot callback
snapshotNotes(snap) == IF "notes" \in DOMAIN snap THEN snap.notes ELSE <<>>

\* The document a listener is attached to.
ListenerPath(l) == DocPath(l.uid, buildFirestoreKey(l.scope, l.context))

\* subscribeToScope(scope, context, callback) of the client of user uid:
\* onSnapshot registers one more listener, whose first snapshot is the
\* document as it is. seq numbers the snapshots by the change they follow.
subscribeToScope(ls, uid, scope, context, owner) ==
  LET l0 == [uid |-> uid, scope |-> scope, context |-> context]
  IN  Append(ls,
        [uid |-> uid, scope |-> scope, context |-> context, owner |-> owner,
         live |-> TRUE,
         pending |-> <<[snap |-> snapshotOf(remote, ListenerPath(l0)), seq |-> changes]>>,
         count |-> 0, last |-> <<>>, lastSeq |-> NoTime, stoppedAt |-> NoTime])

\* A detached listener: its callback never runs again (what it was passed
\* is no longer kept); stoppedAt is the number of changes it could see.
detached(l) ==
  [l EXCEPT !.live = FALSE, !.pending = <<>>, !.count = 0, !.last = <<>>,
            !.lastSeq = NoTime, !.stoppedAt = changes]

\* An unsubscribe that detaches every listener of the document.
unsubscribe_ByPath(ls, id) ==
  [i \in 1..Len(ls) |->
     IF ListenerPath(ls[i]) = ListenerPath(ls[id]) /\ ls[i].live
       THEN detached(ls[i]) ELSE ls[i]]

\* The Unsubscribe that onSnapshot returned: it detaches that one listener.
unsubscribe(ls, id) == [ls EXCEPT ![id] = detached(ls[id])]

\* The store queues the snapshot for every live listener of the document.
notify(ls, path, snap, seq) ==
  [i \in 1..Len(ls) |->
     IF ls[i].live /\ ListenerPath(ls[i]) = path
       THEN [ls[i] EXCEPT !.pending = Append(@, [snap |-> snap, seq |-> seq])]
       ELSE ls[i]]

\* The listener body of subscribeToScope runs on its next snapshot.
onSnapshotCallback(l) ==
  [l EXCEPT !.pending = Tail(@), !.count = @ + 1,
            !.last = snapshotNotes(Head(l.pending).snap),
            !.lastSeq = Head(l.pending).seq]

\* Whose documents are subscribed to, and the documents other devices write.
SubSubjects == {<<"u1", "page", Ctx_sa>>, <<"u2", "page", Ctx_sa>>}
RemoteDocs == {NoDoc, [notes |-> N_one, updatedAt |-> 0], [updatedAt |-> 0]}
\* What the devices do: those of u1 write and delete its page document, one
\* of u2 writes the page document of u2.
RemoteWrites ==
  ({DocPath("u1", buildFirestoreKey("page", Ctx_sa))} \X RemoteDocs)
    \cup {<<DocPath("u2", buildFirestoreKey("page", Ctx_sa)), [notes |-> N_one, updatedAt |-> 0]>>}

\* new FirebaseSync(u).subscribeToScope(scope, context, callback)
Subscribe(u, scope, context) ==
  /\ Len(listeners) < MaxListeners
  /\ listeners' = subscribeToScope(listeners, u, scope, context, "caller")
  /\ UNCHANGED <<badge, probe, cache, remote, authUser, syncService, task, now, saveLog,
                 changes, app, tabs>>

\* The caller invokes the function subscribeToScope returned.
Unsubscribe(id) ==
  /\ id \in DOMAIN listeners
  /\ listeners[id].live /\ listeners[id].owner = "caller"
  /\ listeners' = unsubscribe(listeners, id)
  /\ UNCHANGED <<badge, probe, cache, remote, authUser, syncService, task, now, saveLog,
                 changes, app, tabs>>

\* A device writes or deletes a document.
RemoteChange(path, doc) ==
  /\ changes < MaxChanges
  /\ snapshotOf(remote, path) # doc
  /\ remote' = IF doc = NoDoc THEN [x \in DOMAIN remote \ {path} |-> remote[x]]
               ELSE Put(remote, path, doc)
  /\ changes' = changes + 1
  /\ listeners' = notify(listeners, path, doc, changes + 1)
  /\ UNCHANGED <<badge, probe, cache, authUser, syncService, task, now, saveLog, app, tabs>>

\* The store delivers a listener its next snapshot.
Deliver(id) ==
  /\ id \in DOMAIN listeners
  /\ listeners[id].live /\ listeners[id].pending # <<>>
  /\ listeners' = [listeners EXCEPT ![id] = onSnapshotCallback(listeners[id])]
  /\ UNCHANGED <<badge, probe, cache, remote, authUser, syncService, task, now, saveLog,
                 changes, app, tabs>>

\* The sync client's subscriptions used directly, with devices writing.
InitSub == InitWith({EmptyStore}, {"u1"})

NextSub ==
  \/ \E x \in SubSubjects : Subscribe(x[1], x[2], x[3])
  \/ \E id \in 1..MaxListeners : Unsubscribe(id)
  \/ \E w \in RemoteWrites : RemoteChange(w[1], w[2])
  \/ \E id \in 1..MaxListeners : Deliver(id)

SpecSub == InitSub /\ [][NextSub]_vars

\* ------------------------------------------------- context-change listeners
\* The contexts of the active tab: none (no URL), or one of two pages.
TabContexts == {NoContext, Ctx_sa, Ctx_v6}

\* A registration that first removes the listeners registered before.
onTabContextChange_Single(tb, owner) ==
  [tb EXCEPT !.registered =
     Append([i \in 1..Len(@) |-> [@[i] EXCEPT !.live = FALSE]],
            [owner |-> owner, live |-> TRUE, calls |-> 0, seen |-> NoContext])]

\* onTabContextChange(callback): chrome.runtime.onMessage.addListener of a
\* new messageListener. calls and seen: how often the callback ran, and with what.
onTabContextChange(tb, owner) ==
  [tb EXCEPT !.registered =
     Append(@, [owner |-> owner, live |-> TRUE, calls |-> 0, seen |-> NoContext])]

\* The cleanup function onTabContextChange returned: removeListener.
removeTabListener(tb, id) == [tb EXCEPT !.registered[id].live = FALSE]

\* A TAB_CHANGED or TAB_UPDATED message: every registered messageListener
\* calls updateContext(), which first awaits getCurrentTabContext().
tabMessage(tb, c) ==
  LET ids == SelectSeq([i \in 1..Len(tb.registered) |-> i],
                       LAMBDA i : tb.registered[i].live)
  IN  [tb EXCEPT !.url = c, !.events = @ + 1, !.running = @ \o ids,
                 !.answers = @ \o [i \in 1..Len(ids) |-> NoAnswer]]

\* chrome.tabs.query of the k-th updateContext() in flight is answered by
\* the browser with the tab that is active now; its callback runs later.
tabAnswer(tb, k) == [tb EXCEPT !.answers[k] = Answer(tb.url)]

\* What the k-th query in flight found: its answer, or the tab active now
\* when it is answered only now.
tabFound(tb, k) == IF tb.answers[k].answered THEN tb.answers[k].context ELSE tb.url

\* getCurrentTabContext() of the k-th updateContext() in flight resolves,
\* and its callback runs with the context the query found.
tabCallback(tb, k) ==
  LET id == tb.running[k]
  IN  [tb EXCEPT !.running = SubSeq(@, 1, k - 1) \o SubSeq(@, k + 1, Len(@)),
                 !.answers = SubSeq(@, 1, k - 1) \o SubSeq(@, k + 1, Len(@)),
                 !.registered[id].calls = @ + 1,
                 !.registered[id].seen = tabFound(tb, k)]

\* ------------------------------------------------------ the sidebar component
\* The cleanup of the subscription effect left out.
effectCleanup_Keep(ls, ids) == ls

\* unsubscribers.forEach(unsub => unsub())
effectCleanup(ls, ids) ==
  [i \in 1..Len(ls) |-> IF i \in ids /\ ls[i].live THEN detached(ls[i]) ELSE ls[i]]

\* allScopes.forEach(scope => syncService.subscribeToScope(scope, context, ...))
subscribeAllScopes(ls, uid, context) ==
  LET l1 == subscribeToScope(ls, uid, "page", context, "app")
      l2 == subscribeToScope(l1, uid, "subdomain", context, "app")
      l3 == subscribeToScope(l2, uid, "domain", context, "app")
  IN  subscribeToScope(l3, uid, "browser", context, "app")

\* loadNotes of the load effects, up to its first await: with a context and
\* an authenticated state it is called, and creates the client when there is
\* none and a user is signed in (initializeSync, lines 13-20).
clientAfterLoadEffects(context, isAuthenticated) ==
  IF context # NoContext /\ isAuthenticated /\ syncService = NoService
       /\ authUser # NoUser
    THEN authUser ELSE syncService

\* A commit of the component after context or isAuthenticated changed: the
\* cleanup of the previous subscription effect, then the effect again.
\* <<listeners, app, syncService>> afterwards.
appCommit(context, isAuthenticated) ==
  LET cleaned == effectCleanup(listeners, app.unsubscribers)
      client == clientAfterLoadEffects(context, isAuthenticated)
      subscribes == context # NoContext /\ isAuthenticated /\ client # NoService
      ls == IF subscribes THEN subscribeAllScopes(cleaned, client, context) ELSE cleaned
  IN  <<ls,
        [app EXCEPT !.context = context, !.isAuthenticated = isAuthenticated,
                    !.client = IF context # NoContext /\ isAuthenticated
                                 THEN client ELSE NoService,
                    !.unsubscribers = IF subscribes THEN (Len(cleaned) + 1)..Len(ls) ELSE {},
                    !.commits = @ + 1],
        client>>

\* The sidebar opens: the component mounts without context, not
\* authenticated; it registers its context-change listener and calls
\* updateContext() once.
AppMount ==
  /\ ~app.mounted /\ Len(tabs.registered) < MaxTabListeners
  /\ app' = [AppUnmounted EXCEPT !.mounted = TRUE, !.commits = app.commits,
                                 !.tabListener = Len(tabs.registered) + 1]
  /\ tabs' = [onTabContextChange(tabs, "app") EXCEPT
                !.running = Append(@, Len(tabs.registered) + 1),
                !.answers = Append(@, NoAnswer)]
  /\ UNCHANGED <<badge, probe, cache, remote, authUser, syncService, task, now, saveLog,
                 listeners, changes>>

\* The auth listener of the component runs: setIsAuthenticated(!!user).
AppAuthChange ==
  LET c == appCommit(app.context, authUser # NoUser)
  IN  /\ app.mounted /\ app.commits < MaxCommits
      /\ app.isAuthenticated # (authUser # NoUser)
      /\ listeners' = c[1] /\ app' = c[2] /\ syncService' = c[3]
      /\ UNCHANGED <<badge, probe, cache, remote, authUser, task, now, saveLog, changes, tabs>>

\* The background script reports a tab change.
TabEvent(c) ==
  /\ tabs.events < MaxTabEvents
  /\ tabs' = tabMessage(tabs, c)
  /\ UNCHANGED <<badge, probe, cache, remote, authUser, syncService, task, now, saveLog,
                 listeners, changes, app>>

\* An updateContext() resolves. The component's callback is setContext: a
\* new context object, so the effects run again (not when it is unmounted).
TabUpdate(k) ==
  LET id == tabs.running[k]
      c == appCommit(tabs.url, app.isAuthenticated)
      commits == tabs.registered[id].owner = "app" /\ app.mounted
                   /\ app.tabListener = id
  IN  /\ k \in DOMAIN tabs.running
      /\ commits => app.commits < MaxCommits
      /\ tabs' = tabCallback(tabs, k)
      /\ listeners' = IF commits THEN c[1] ELSE listeners
      /\ app' = IF commits THEN c[2] ELSE app
      /\ syncService' = IF commits THEN c[3] ELSE syncService
      /\ UNCHANGED <<badge, probe, cache, remote, authUser, task, now, saveLog, changes>>

\* The sidebar closes: every effect's cleanup runs.
AppUnmount ==
  /\ app.mounted
  /\ listeners' = effectCleanup(listeners, app.unsubscribers)
  /\ tabs' = removeTabListener(tabs, app.tabListener)
  /\ app' = [app EXCEPT !.mounted = FALSE, !.unsubscribers = {}]
  /\ UNCHANGED <<badge, probe, cache, remote, authUser, syncService, task, now, saveLog, changes>>

\* The sidebar, with the user signing in and out and the tabs changing.
InitApp == InitWith({EmptyStore}, {NoUser})

NextApp ==
  \/ SignIn("u1")
  \/ SignOut
  \/ AppMount
  \/ AppAuthChange
  \/ \E c \in TabContexts : TabEvent(c)
  \/ \E k \in 1..(MaxTabListeners * MaxTabEvents + 1) : TabUpdate(k)
  \/ AppUnmount

SpecApp == InitApp /\ [][NextApp]_vars

\* The scope tabs of the sidebar, Page first, and the ones presented for a
\* context: without the subdomain tab when the host has no subdomain.
allTabs == <<"page", "subdomain", "domain", "browser">>
presentedTabs(context) ==
  IF context # NoContext /\ context.domain = context.subdomain
    THEN SelectSeq(allTabs, LAMBDA scope : scope # "subdomain")
    ELSE allTabs

\* A click on the tab button of index idx, one of those presented (the
\* tab bar is rendered for a signed-in user only).
SelectTab(idx) ==
  /\ app.mounted /\ app.isAuthenticated
  /\ idx \in 0..(Len(presentedTabs(app.context)) - 1)
  /\ idx # app.tabValue
  /\ app' = [app EXCEPT !.tabValue = idx]
  /\ UNCHANGED <<badge, probe, cache, remote, authUser, syncService, task, now, saveLog,
                 listeners, changes, tabs>>

\* The sidebar of a user who signs in, with the tabs changing and the user
\* choosing scope tabs.
NextView ==
  \/ SignIn("u1")
  \/ AppMount
  \/ AppAuthChange
  \/ \E c \in TabContexts : TabEvent(c)
  \/ \E k \in 1..(MaxTabListeners * MaxTabEvents + 1) : TabUpdate(k)
  \/ \E idx \in 0..(Len(allTabs) - 1) : SelectTab(idx)
  \/ AppUnmount

SpecView == InitApp /\ [][NextView]_vars

\* ----------------------------------- onTabContextChange called directly
RegisterTabListener ==
  /\ Len(tabs.registered) < MaxTabListeners
  /\ tabs' = onTabContextChange(tabs, "caller")
  /\ UNCHANGED <<badge, probe, cache, remote, authUser, syncService, task, now, saveLog,
                 listeners, changes, app>>

CleanupTabListener(id) ==
  /\ id \in DOMAIN tabs.registered
  /\ tabs.registered[id].live
  /\ tabs' = removeTabListener(tabs, id)
  /\ UNCHANGED <<badge, probe, cache, remote, authUser, syncService, task, now, saveLog,
                 listeners, changes, app>>

NextTabs ==
  \/ RegisterTabListener
  \/ \E id \in 1..MaxTabListeners : CleanupTabListener(id)
  \/ \E c \in TabContexts : TabEvent(c)
  \/ \E k \in 1..(MaxTabListeners * MaxTabEvents + 1) : TabUpdate(k)

SpecTabs == InitApp /\ [][NextTabs]_vars

\* The browser answers a current-tab query; the callback has yet to run.
TabAnswer(k) ==
  /\ k \in DOMAIN tabs.running
  /\ ~tabs.answers[k].answered
  /\ tabs' = tabAnswer(tabs, k)
  /\ UNCHANGED <<badge, probe, cache, remote, authUser, syncService, task, now, saveLog,
                 listeners, changes, app>>

\* The same calls, with the answer of a query and the run of its callback
\* apart: the tab may change between the two.
NextQuery ==
  \/ NextTabs
  \/ \E k \in 1..(MaxTabListeners * MaxTabEvents + 1) : TabAnswer(k)

SpecQuery == InitApp /\ [][NextQuery]_vars

\* ======================================================================
\* The claims.
\* ======================================================================
\* The limits of the documentation: at most MAX_NOTES notes, each text at
\* most MAX_NOTE_SIZE units.
ValidPayload(notes) ==
  /\ Len(notes) <= MAX_NOTES
  /\ \A i \in 1..Len(notes) : notes[i].text <= MAX_NOTE_SIZE

\* The task that takes the step, if a task does.
Acts(t) == task'[t] # task[t]
Completes(t) == task[t].pc # "done" /\ task'[t].pc = "done"
LocalKey(rec) == getStorageKey(rec.scope, rec.context)
HasNotes(c, key, notes) == key \in DOMAIN c /\ c[key] = ArrayVal(notes)

\* C1: every call of the orchestrator's saveNotes completes without raising,
\* and at its completion the cache entry at getStorageKey(scope, context)
\* equals notes - also when lazy initialization fails.
C1_SaveNeverRaises ==
  [][\A t \in Tasks :
       (task'[t].op = "saveNotes" /\ Completes(t)) =>
         /\ task'[t].error = "none"
         /\ HasNotes(cache', LocalKey(task'[t]), task'[t].notes)]_vars

\* C2: a loadNotes that found the client available and whose remote read
\* fails does not raise, changes the cache in none of its steps, and returns
\* the cache entry at getStorageKey(scope, context), or [] without entry.
C2_LoadFallsBackToCache ==
  [][\A t \in Tasks :
       (/\ Acts(t)
        /\ task'[t].op = "loadNotes"
        /\ ~task'[t].lazy
        /\ task'[t].pc \in {"c_load", "load_local", "done"}
        /\ (task'[t].pc = "done" => task'[t].remoteFailed)) =>
         /\ cache' = cache
         /\ task'[t].error = "none"
         /\ (task'[t].pc = "done" =>
               task'[t].result =
                 IF LocalKey(task[t]) \in DOMAIN cache
                   THEN cache[LocalKey(task[t])].val ELSE <<>>)]_vars

\* C2's case: a client was available, the read failed, and a non-empty cache
\* entry was returned.
C2_Witness ==
  \E t \in Tasks :
    /\ task[t].op = "loadNotes" /\ task[t].pc = "done"
    /\ ~task[t].lazy /\ task[t].remoteFailed
    /\ task[t].result # <<>>
    /\ HasNotes(cache, LocalKey(task[t]), task[t].result)

\* C3: a loadNotes whose remote read succeeds takes the notes of the remote
\* document of its scope-context (or [] when there is none), writes them to
\* the cache entry at getStorageKey(scope, context) and returns them.
C3_LoadRefreshesCache ==
  [][\A t \in Tasks :
       (Acts(t) /\ task[t].op = "loadNotes") =>
         /\ (task[t].pc = "c_load" /\ task'[t].pc # "load_local") =>
              /\ task'[t].pc = "load_refresh"
              /\ LET path == <<task[t].uid,
                               buildFirestoreKey(task[t].scope, task[t].context)>>
                 IN  task'[t].result =
                       IF path \in DOMAIN remote THEN remote[path].notes ELSE <<>>
         /\ task[t].pc = "load_refresh" =>
              /\ task'[t].pc = "done"
              /\ task'[t].error = "none"
              /\ task'[t].result = task[t].result
              /\ HasNotes(cache', LocalKey(task[t]), task[t].result)]_vars

\* C3's case: a remote read succeeded with a non-empty collection, which is
\* now in the cache.
C3_Witness ==
  \E t \in Tasks :
    /\ task[t].op = "loadNotes" /\ task[t].pc = "done"
    /\ task[t].uid # NoService /\ ~task[t].remoteFailed
    /\ task[t].result # <<>>
    /\ HasNotes(cache, LocalKey(task[t]), task[t].result)

\* A call that met no failure of the remote store.
Clean(rec) == rec.pc = "done" /\ rec.error = "none" /\ ~rec.remoteFailed

\* Task t is a loadNotes that directly follows a saveNotes of the same
\* scope-context (SpecSeq takes the tasks in order, one at a time).
RoundTrip(t) ==
  /\ t > 1
  /\ task[t - 1].op = "saveNotes" /\ Clean(task[t - 1])
  /\ task[t].op = "loadNotes" /\ Clean(task[t])
  /\ task[t].scope = task[t - 1].scope
  /\ task[t].context = task[t - 1].context

\* C4: saveNotes(scope, ctx, N) directly followed by loadNotes(scope, ctx),
\* with no remote failure in either, returns N.
C4_RoundTrip ==
  \A t \in Tasks : (IF t > 1 THEN RoundTrip(t) ELSE FALSE) => task[t].result = task[t - 1].notes

\* C4's case: a round trip through the remote store with a non-empty N.
C4_Witness ==
  \E t \in Tasks :
    /\ IF t > 1 THEN RoundTrip(t) ELSE FALSE
    /\ task[t - 1].uid # NoService /\ task[t].uid # NoService
    /\ task[t].result # <<>>

\* A completed direct call of the client's saveNotes.
ClientSaveDone(rec) == rec.op = "client.saveNotes" /\ rec.pc = "done"

\* C5: a client saveNotes with a valid payload is rejected with
\* RateLimitError if and only if less than THROTTLE_MS have passed since the
\* last accepted write to its key; otherwise (the store reachable) it succeeds.
C5_ThrottleIff ==
  \A t \in Tasks :
    (ClientSaveDone(task[t]) /\ ValidPayload(task[t].notes) /\ ~task[t].remoteFailed) =>
      /\ task[t].inWindow <=> task[t].error = "ratelimit"
      /\ ~task[t].inWindow => task[t].error = "none"

\* C6: of the saveNotes calls in flight together for one key, no two are
\* accepted less than THROTTLE_MS apart.
C6_OneWritePerWindow ==
  \A t1, t2 \in Tasks :
    (/\ t1 # t2
     /\ ClientSaveDone(task[t1]) /\ ClientSaveDone(task[t2])
     /\ PathOf(task[t1]) = PathOf(task[t2])
     /\ task[t1].overlap \/ task[t2].overlap
     /\ task[t1].at # NoTime /\ task[t2].at # NoTime) =>
      \/ task[t1].at - task[t2].at >= THROTTLE_MS
      \/ task[t2].at - task[t1].at >= THROTTLE_MS

\* C7: a client saveNotes fails with ValidationError, before any network
\* call, if and only if the payload has more than MAX_NOTES notes or a text
\* longer than MAX_NOTE_SIZE.
C7_ValidationIff ==
  \A t \in Tasks :
    task[t].op = "client.saveNotes" =>
      /\ (task[t].pc = "c_save" => ValidPayload(task[t].notes))
      /\ (task[t].pc = "done" =>
            (task[t].error = "validation" <=> ~ValidPayload(task[t].notes)))

C9_RemoteWithinLimits ==
  \A path \in DOMAIN remote : ValidPayload(remote[path].notes)

\* The cache entries migration is claimed to carry over.
MigTargets == {<<"domain", Ctx_v6>>, <<"page", Ctx_sa>>, <<"page", Ctx_sat>>}

\* C10: once a migrateLocalNotes (the only call so far) has completed, the
\* remote document at buildFirestoreKey(scope, context) holds the array the
\* cache holds at getStorageKey(scope, context).
C10_MigrationReachesLiveKey ==
  (/\ task[1].op = "client.migrateLocalNotes" /\ Clean(task[1])
   /\ \A t \in Tasks \ {1} : task[t].pc = "idle") =>
    \A x \in MigTargets :
      LET key == getStorageKey(x[1], x[2])
      IN  (key \in DOMAIN cache /\ cache[key].isArray) =>
            remoteNotes(remote, DocPath(task[1].uid, buildFirestoreKey(x[1], x[2])))
              = cache[key].val

\* The calls that started a migrateLocalNotes (task.sweep records whether
\* the flag was unset, "first", or already set, "again", when it started).
Sweepers == {t \in Tasks : task[t].sweep # "none"}

\* C11: across every interleaving of initializeSync invocations (lazy, from
\* saveNotes and loadNotes, and from the background script), migrateLocalNotes
\* is started at most once.
C11_MigrationStartsOnce == Cardinality(Sweepers) <= 1

\* C12: a migrateLocalNotes invoked after a first one has completed and set
\* the flag performs no remote write.
C12_SecondSweepWritesNothing ==
  [][\A t \in Tasks :
       (Acts(t) /\ task[t].sweep = "again") => remote' = remote]_vars

\* C13: the step that ends a sweep finds nothing left to upload, writes no
\* document and sets _migrated_to_firebase to true; no other step of a sweep
\* touches the cache; the flag, once true, stays true.
C13_FlagAfterLastWrite ==
  [][/\ \A t \in Tasks :
          (Acts(t) /\ task[t].sweep # "none") =>
            /\ task[t].pc = "mig_flag" =>
                 /\ DOMAIN task[t].todo = {}
                 /\ remote' = remote
                 /\ ~flagUnset(cache')
                 /\ task'[t].pc \notin {"mig_scan", "mig_write", "mig_flag"}
            /\ task[t].pc \in {"mig_scan", "mig_write"} => cache' = cache
     /\ ~flagUnset(cache) => ~flagUnset(cache')]_vars

\* C13's case: a sweep over two legacy entries has uploaded them and
\* completed, and the flag is true.
C13_Witness ==
  \E t \in Tasks :
    /\ task[t].op = "client.migrateLocalNotes" /\ Clean(task[t])
    /\ task[t].sweep = "first"
    /\ Cardinality(DOMAIN migrationEntries(cache)) >= 2
    /\ remote # EmptyStore
    /\ ~flagUnset(cache)

\* A completed saveNotes whose remote write failed (the store was unreachable).
SavedOffline(t) ==
  task[t].op = "saveNotes" /\ task[t].pc = "done" /\ task[t].remoteFailed

\* The remote document of the call holds the notes of the call.
Synced(t) == remoteNotes(remote, PathOf(task[t])) = task[t].notes

\* Another saveNotes of the same collection has been called.
SavedAgain(t) ==
  \E o \in Tasks \ {t} :
    /\ task[o].op = "saveNotes"
    /\ task[o].scope = task[t].scope /\ task[o].context = task[t].context

\* C14: notes saved through the orchestrator while the remote store was
\* unreachable are eventually in the remote document, without another save of
\* the same collection.
C14_OfflineSaveEventuallySynced ==
  \A t \in Tasks : SavedOffline(t) ~> (Synced(t) \/ SavedAgain(t))

\* Listeners a and b are attached to the same document, a before b.
SamePath(a, b) ==
  /\ a \in DOMAIN listeners /\ b \in DOMAIN listeners /\ a < b
  /\ ListenerPath(listeners[a]) = ListenerPath(listeners[b])

\* C15: after subscribeToScope was called twice for one scope-context,
\* invoking the first unsubscribe leaves the second listener as it is, and
\* every later change of the document is queued for the second callback and
\* delivered to it.
C15_SecondSubscriptionSurvives ==
  [][\A a, b \in 1..Len(listeners) :
       (SamePath(a, b) /\ listeners[b].live) =>
         /\ (listeners[a].live /\ ~listeners'[a].live) =>
              listeners'[b] = listeners[b]
         /\ (~listeners[a].live /\ changes' # changes
             /\ snapshotOf(remote', ListenerPath(listeners[b]))
                  # snapshotOf(remote, ListenerPath(listeners[b]))) =>
              /\ listeners'[b].live
              /\ listeners'[b].pending =
                   Append(listeners[b].pending,
                          [snap |-> snapshotOf(remote', ListenerPath(listeners[b])),
                           seq |-> changes'])
         /\ (~listeners[a].live /\ listeners'[b].live
             /\ listeners'[b].count # listeners[b].count) =>
              /\ listeners'[b].count = listeners[b].count + 1
              /\ listeners'[b].last = snapshotNotes(Head(listeners[b].pending).snap)]_vars

\* C15's case: the first of two listeners of a document was unsubscribed,
\* and the second callback has since been passed a later change.
C15_Witness ==
  \E a, b \in 1..Len(listeners) :
    /\ SamePath(a, b)
    /\ ~listeners[a].live /\ listeners[b].live
    /\ listeners[b].lastSeq > listeners[a].stoppedAt
    /\ listeners[b].last = snapshotNotes(snapshotOf(remote, ListenerPath(listeners[b])))
    /\ listeners[b].last # <<>>

\* C17: every snapshot delivered to a listener of subscribeToScope invokes
\* the callback exactly once, with the notes of the document, or with []
\* when the document is missing or has no notes field.
C17_OneCallbackPerSnapshot ==
  [][\A id \in 1..Len(listeners) :
       LET l == listeners[id]
           m == listeners'[id]
       IN  (l.live /\ m.live /\ Len(m.pending) < Len(l.pending)) =>
             /\ m.pending = Tail(l.pending)
             /\ m.count = l.count + 1
             /\ m.last = IF Head(l.pending).snap = NoDoc
                              \/ "notes" \notin DOMAIN Head(l.pending).snap
                           THEN <<>> ELSE Head(l.pending).snap.notes]_vars

\* C17's case: a listener was passed its first snapshot and a later change,
\* the last one for a document without a notes field.
C17_Witness ==
  \E id \in 1..Len(listeners) :
    /\ listeners[id].live /\ listeners[id].count >= 2
    /\ listeners[id].last = <<>>
    /\ "notes" \notin DOMAIN snapshotOf(remote, ListenerPath(listeners[id]))
    /\ snapshotOf(remote, ListenerPath(listeners[id])) # NoDoc
    /\ listeners[id].lastSeq = changes

\* The live listeners the component registered.
AppLive == {id \in DOMAIN listeners : listeners[id].owner = "app" /\ listeners[id].live}

\* The scope-contexts the component is to be subscribed to: the four scopes
\* of its context, when it is mounted with a context, authenticated, and its
\* effect found a client.
AppExpected ==
  IF app.mounted /\ app.context # NoContext /\ app.isAuthenticated
       /\ app.client # NoService
    THEN Scopes \X {app.context} ELSE {}

\* C16: the live subscriptions of the component are those its last effect
\* registered, one for each scope of the current context, and none when it
\* has no context, is not authenticated, found no client or is unmounted:
\* every subscription of an earlier context has been unsubscribed.
C16_AppOwnsCurrentSubscriptions ==
  /\ AppLive = app.unsubscribers
  /\ {<<listeners[id].scope, listeners[id].context>> : id \in AppLive} = AppExpected
  /\ Cardinality(AppLive) = Cardinality(AppExpected)
  /\ \A id \in AppLive : listeners[id].uid = app.client

\* C16's case: the component went from one context to another; the four
\* listeners of the first are detached, the four of the second are live.
C16_Witness ==
  /\ app.mounted /\ app.context = Ctx_v6
  /\ Cardinality(AppLive) = Cardinality(Scopes)
  /\ \E id \in DOMAIN listeners :
       /\ listeners[id].owner = "app" /\ ~listeners[id].live
       /\ listeners[id].context = Ctx_sa

\* The context-change listeners now registered.
TabLive == {id \in DOMAIN tabs.registered : tabs.registered[id].live}

\* C18: at most one context-change listener is registered at any time, so a
\* tab event starts at most one recomputation.
C18_OneContextListener ==
  /\ Cardinality(TabLive) <= 1
  /\ Len(tabs.running) <= tabs.events

\* C19: a saveNotes or loadNotes called while no user id can be resolved
\* issues no remote read, no remote write and no migration: it goes straight
\* to the cache step, without creating a client.
C19_CacheOnlyWithoutIdentity ==
  [][\A t \in Tasks :
       (/\ task[t].pc = "idle" /\ Acts(t)
        /\ authUser = NoUser
        /\ task'[t].op \in {"saveNotes", "loadNotes"}) =>
         /\ task'[t].pc \in {"save_local", "load_local"}
         /\ task'[t].uid = NoService
         /\ remote' = remote]_vars

\* The documents a step writes, creates or deletes.
Written == {p \in DOMAIN remote \cup DOMAIN remote' : snapshotOf(remote', p) # snapshotOf(remote, p)}

C20_ListenerStaysInNamespace ==
  [][\A id \in 1..Len(listeners') :
       LET m == listeners'[id]
           p == <<m.uid, buildFirestoreKey(m.scope, m.context)>>
       IN  /\ id > Len(listeners) =>
                m.pending = <<[snap |-> snapshotOf(remote, p), seq |-> changes]>>
           /\ (id <= Len(listeners) /\ m.live) =>
                IF p \in Written
                  THEN m.pending = Append(listeners[id].pending,
                                          [snap |-> snapshotOf(remote', p), seq |-> changes'])
                  ELSE Len(m.pending) <= Len(listeners[id].pending)]_vars
\* A cache entry the sweep is to pass over: its value is no array, its key
\* does not start with 'notes:', its scope segment is none of the four
\* scopes, or it is a domain, subdomain or page key without a third segment.
Skipped(k, v) ==
  LET parts == Split(k, ":")
  IN  \/ ~v.isArray
      \/ ~StartsWith(k, S_notes \o <<":">>)
      \/ parts[2] \notin {S_browser, S_domain, S_subdomain, S_page}
      \/ parts[2] \in {S_domain, S_subdomain, S_page} /\ Len(parts) < 3

\* C21: migrateLocalNotes passes over every entry that is Skipped, without
\* raising and without a remote write for it, and uploads every other entry
\* of its snapshot: the scan keeps exactly the entries not Skipped, each
\* write uploads one of them and takes it off the list, and the sweep ends
\* only when none is left.
C21_SkipsUnrecognisedEntries ==
  [][\A t \in Tasks :
       (Acts(t) /\ task[t].sweep # "none") =>
         /\ task[t].pc = "mig_scan" =>
              /\ DOMAIN task'[t].todo =
                   {k \in DOMAIN cache : ~Skipped(k, cache[k])}
              /\ \A k \in DOMAIN task'[t].todo : task'[t].todo[k] = cache[k].val
              /\ task'[t].error = "none"
              /\ remote' = remote
         /\ (task[t].pc = "mig_write" /\ task'[t].error = "none") =>
              \E k \in DOMAIN task[t].todo :
                /\ DOMAIN task'[t].todo = DOMAIN task[t].todo \ {k}
                /\ \E p \in DOMAIN remote' :
                     /\ remote'[p].notes = task[t].todo[k]
                     /\ Written \subseteq {p}
         /\ task[t].pc = "mig_flag" =>
              DOMAIN task[t].todo = {} /\ remote' = remote]_vars

\* C21's case: a sweep over the mixed cache has completed without error; the
\* two collections are in the remote store and nothing else is.
C21_Witness ==
  \E t \in Tasks :
    /\ task[t].op = "client.migrateLocalNotes" /\ Clean(task[t])
    /\ cache = Put(MixedCache, S_flag, TrueVal)
    /\ DOMAIN remote = {DocPath("u1", S_browser),
                        DocPath("u1", S_subdomain \o <<"_">> \o H_sa)}
    /\ remote[DocPath("u1", S_browser)].notes = N_one
    /\ remote[DocPath("u1", S_subdomain \o <<"_">> \o H_sa)].notes = N_two
Has(s, ch) == \E i \in 1..Len(s) : s[i] = ch
\* s with every '/' replaced by '~'.
Tilded(s) == [i \in 1..Len(s) |-> IF s[i] = "/" THEN "~" ELSE s[i]]

\* C22: buildFirestoreKey gives 'browser' for browser and for a scope that
\* is none of the four, 'domain_' + domain, 'subdomain_' + subdomain, and
\* 'page_' + subdomain + the path with every '/' replaced by '~'; the key has
\* no '/' when domain and subdomain have none.
C22_RemoteKeyShape ==
  probe.fn = "buildFirestoreKey" =>
    LET c == probe.context
    IN  /\ probe.out =
             CASE probe.scope = "domain" -> <<"d", "o", "m", "a", "i", "n", "_">> \o c.domain
               [] probe.scope = "subdomain" ->
                    <<"s", "u", "b", "d", "o", "m", "a", "i", "n", "_">> \o c.subdomain
               [] probe.scope = "page" ->
                    <<"p", "a", "g", "e", "_">> \o c.subdomain \o Tilded(c.path)
               [] OTHER -> <<"b", "r", "o", "w", "s", "e", "r">>
        /\ (~Has(c.domain, "/") /\ ~Has(c.subdomain, "/")) => ~Has(probe.out, "/")

\* C22's case: the page key of a path with two separators, both replaced.
C22_Witness ==
  /\ probe.fn = "buildFirestoreKey" /\ probe.scope = "page"
  /\ probe.context.path = P_xy
  /\ probe.out = <<"p", "a", "g", "e", "_", "s", ".", "a", ".", "i", "o", "~", "x", "~", "y">>

\* C23: getStorageKey gives 'notes:browser' for browser and for a scope that
\* is none of the four, 'notes:domain:' + domain, 'notes:subdomain:' +
\* subdomain and 'notes:page:' + subdomain + path, and the same key when it is
\* called again with the same arguments.
C23_LocalKeyShape ==
  [][probe'.fn = "getStorageKey" =>
       LET c == probe'.context
           notes == <<"n", "o", "t", "e", "s", ":">>
       IN  /\ probe'.out =
                CASE probe'.scope = "domain" ->
                       notes \o <<"d", "o", "m", "a", "i", "n", ":">> \o c.domain
                  [] probe'.scope = "subdomain" ->
                       notes \o <<"s", "u", "b", "d", "o", "m", "a", "i", "n", ":">> \o c.subdomain
                  [] probe'.scope = "page" ->
                       notes \o <<"p", "a", "g", "e", ":">> \o c.subdomain \o c.path
                  [] OTHER -> notes \o <<"b", "r", "o", "w", "s", "e", "r">>
           /\ probe'.calls > 1 =>
                /\ probe.fn = "getStorageKey"
                /\ probe'.scope = probe.scope /\ probe'.context = probe.context
                /\ probe'.out = probe.out]_vars

\* C23's case: the page key, asked for twice.
C23_Witness ==
  /\ probe.fn = "getStorageKey" /\ probe.scope = "page" /\ probe.calls = 2
  /\ probe.out = <<"n", "o", "t", "e", "s", ":", "p", "a", "g", "e", ":",
                   "s", ".", "a", ".", "i", "o", "/", "x", "/", "y">>

\* s ends with t.
IsSuffix(t, s) == Len(t) <= Len(s) /\ SubSeq(s, Len(s) - Len(t) + 1, Len(s)) = t

\* C24: parseUrlContext gives the same result when called again with the
\* same URL, and for a URL it parses, subdomain is the hostname of the URL,
\* domain is its last two labels (all of it when it has fewer than two), and
\* domain is a suffix of subdomain.
C24_DomainSuffixOfSubdomain ==
  [][(probe'.fn = "parseUrlContext") =>
       /\ probe'.calls > 1 => (probe'.url = probe.url /\ probe'.out = probe.out)
       /\ (~probe'.out.isNull /\ ~probe'.out.raised) =>
            LET c == probe'.out.context
                labels == Split(c.subdomain, ".")
                n == Len(labels)
            IN  /\ c.subdomain = URL(probe'.url).hostname
                /\ c.domain = IF n < 2 THEN c.subdomain
                              ELSE labels[n - 1] \o <<".">> \o labels[n]
                /\ IsSuffix(c.domain, c.subdomain)]_vars

\* C24's case: a URL whose host has three labels, parsed twice.
C24_Witness ==
  /\ probe.fn = "parseUrlContext" /\ probe.calls = 2 /\ probe.url = U_sa
  /\ ~probe.out.isNull
  /\ probe.out.context.subdomain = <<"s", ".", "a", ".", "i", "o">>
  /\ probe.out.context.domain = <<"a", ".", "i", "o">>

\* C25: parseUrlContext returns null, and does not raise, for a string that
\* is no absolute URL, and getCurrentTabContext resolves to null when the
\* query finds no tab or a tab without URL.
C25_NullWhenUnparseable ==
  /\ probe.fn = "parseUrlContext" =>
       /\ ~probe.out.raised
       /\ probe.url \in OtherStrings => probe.out.isNull
  /\ probe.fn = "getCurrentTabContext" =>
       /\ ~probe.out.raised
       /\ (\/ probe.found = <<>>
           \/ "url" \notin DOMAIN probe.found[1]
           \/ probe.found[1].url = <<>>) => probe.out.isNull

\* C25's case: a string without scheme was given and null came back.
C25_Witness ==
  /\ probe.fn = "parseUrlContext" /\ probe.url = U_bare
  /\ probe.out.isNull /\ ~probe.out.raised
\* Task t is inside updateBadge.
InBadge(t) == task[t].caller = "updateBadge"
\* The step at which a loadNotes of updateBadge has settled.
LoadSettled(t) == InBadge(t) /\ task[t].op = "loadNotes" /\ task[t].pc = "done"

\* The sum of the counts of the loads counted so far.
RECURSIVE SumCounts(_)
SumCounts(loaded) ==
  IF loaded = <<>> THEN 0 ELSE Head(loaded)[2] + SumCounts(Tail(loaded))

\* '' for 0, the decimal digits for 1..99, '99+' above.
BadgeTextFor(n) ==
  LET d == <<"0", "1", "2", "3", "4", "5", "6", "7", "8", "9">>
  IN  IF n = 0 THEN <<>>
      ELSE IF n > 99 THEN <<"9", "9", "+">>
      ELSE IF n < 10 THEN <<d[n + 1]>>
      ELSE <<d[(n \div 10) + 1], d[(n % 10) + 1]>>

\* C26: with a tab context, updateBadge loads the notes of the page, the
\* subdomain and the domain scope of that context, in this order and never
\* those of the browser scope, and when the last load has resolved it sets
\* the badge text to formatBadgeText(n), n the number of notes loaded;
\* without context it clears the badge text.
C26_BadgeShowsContextCount ==
  [][\A t \in Tasks :
       Acts(t) =>
         /\ (task[t].pc = "badge_query" /\ task'[t].pc = "done") =>
              badge'.text = <<>>
         /\ (task[t].pc = "badge_query" /\ task'[t].pc # "done") =>
              /\ task'[t].op = "loadNotes" /\ task'[t].scope = "page"
              /\ task'[t].context \in Contexts
              /\ task'[t].loaded = <<>>
         /\ (InBadge(t) /\ task'[t].op = "loadNotes") => task'[t].scope # "browser"
         /\ (LoadSettled(t) /\ task[t].error = "none") =>
              LET all == Append(task[t].loaded, <<task[t].scope, Len(task[t].result)>>)
              IN  IF task'[t].op = "loadNotes"
                    THEN /\ task'[t].loaded = all
                         /\ task'[t].context = task[t].context
                         /\ task'[t].scope =
                              (IF task[t].scope = "page" THEN "subdomain" ELSE "domain")
                    ELSE /\ [i \in 1..Len(all) |-> all[i][1]] = <<"page", "subdomain", "domain">>
                         /\ badge'.text = BadgeTextFor(SumCounts(all))]_vars

\* C26's case: thirteen notes of the page and of its subdomain were loaded
\* and the badge says 13, the cache holding browser notes as well.
C26_Witness ==
  \E t \in Tasks :
    /\ task[t].op = "updateBadge" /\ task[t].pc = "done" /\ ~task[t].caught
    /\ task[t].loaded = <<<<"page", 12>>, <<"subdomain", 1>>, <<"domain", 0>>>>
    /\ badge.text = <<"1", "3">>
    /\ badge.background = "#4a9eff" /\ badge.color = "#ffffff"
    /\ HasNotes(cache, getStorageKey("browser", Ctx_sa), N_two)

\* C27: when a loadNotes of updateBadge is rejected, updateBadge ends
\* without raising and with the badge as it is, and no step of updateBadge
\* before its last load has resolved changes the badge.
C27_BadgeKeptOnLoadFailure ==
  [][\A t \in Tasks :
       (Acts(t) /\ InBadge(t)) =>
         /\ (LoadSettled(t) /\ task[t].error # "none") =>
              /\ badge' = badge
              /\ task'[t].op = "updateBadge" /\ task'[t].pc = "done"
              /\ task'[t].error = "none"
         /\ (task[t].op = "loadNotes" /\ task'[t].op = "loadNotes") => badge' = badge]_vars

\* C27's case: a load of updateBadge was rejected while the badge showed a
\* count; the call has ended and the badge shows it still.
C27_Witness ==
  \E t \in Tasks :
    /\ task[t].op = "updateBadge" /\ task[t].pc = "done" /\ task[t].caught
    /\ task[t].remoteFailed
    /\ badge = ShownBadge
\* The cache entry at key holds notes the remote document of the client of
\* user uid for scope-context does not hold: it is not migrated yet.
Unmigrated(key, uid, scope, context) ==
  /\ key \in DOMAIN cache /\ cache[key].isArray /\ cache[key].val # <<>>
  /\ remoteNotes(remote, DocPath(uid, buildFirestoreKey(scope, context))) # cache[key].val

\* C28: while the migration flag is not set, a loadNotes that got an empty
\* result from its remote read does not overwrite a cache entry that is not
\* migrated yet.
C28_LegacySurvivesReadThrough ==
  [][\A t \in Tasks :
       (/\ Acts(t) /\ task[t].op = "loadNotes" /\ task[t].pc = "load_refresh"
        /\ task[t].result = <<>>
        /\ flagUnset(cache)
        /\ Unmigrated(LocalKey(task[t]), task[t].uid, task[t].scope, task[t].context)) =>
         cache'[LocalKey(task[t])] = cache[LocalKey(task[t])]]_vars
\* Every call made is a saveNotes of one scope-context through a client,
\* and every one has completed with its remote write successful.
AllSavedTo(scope, context) ==
  \A t \in Tasks :
    /\ task[t].op = "saveNotes" /\ Clean(task[t]) /\ task[t].uid # NoService
    /\ task[t].scope = scope /\ task[t].context = context

\* C29: when the saveNotes calls issued for one scope-context have all
\* completed with their remote writes successful, the cache entry and the
\* remote document of that scope-context hold the same collection.
C29_QuiescentConsistency ==
  \A x \in Targets :
    AllSavedTo(x[1], x[2]) =>
      cacheGetOrEmpty(cache, getStorageKey(x[1], x[2]))
        = remoteNotes(remote, DocPath(task[1].uid, buildFirestoreKey(x[1], x[2])))
\* Task s is a completed saveNotes of user a, task t a completed loadNotes
\* of another user b for the same scope-context, and nobody but a has saved.
SavedByOther(s, t) ==
  /\ task[s].op = "saveNotes" /\ task[s].pc = "done" /\ task[s].user \in Users
  /\ task[s].notes # <<>>
  /\ task[t].op = "loadNotes" /\ task[t].pc = "done" /\ task[t].user \in Users
  /\ task[t].user # task[s].user
  /\ task[t].scope = task[s].scope /\ task[t].context = task[s].context
  /\ \A o \in Tasks : task[o].op = "saveNotes" => task[o].user = task[s].user

\* C30: a loadNotes called by user b does not return the notes user a saved
\* (the page has no legacy notes, and b has saved none), whether its remote
\* read succeeded or failed.
C30_NoNotesOfAnotherUser ==
  \A s, t \in Tasks : SavedByOther(s, t) => task[t].result # task[s].notes

\* A step of task t issues a remote operation: setDoc or getDoc of the
\* client, or the next setDoc of the sweep.
Issues(t) ==
  /\ Acts(t)
  /\ task'[t].pc \in {"c_save", "c_load", "mig_write"}
  /\ task'[t].op \in {"saveNotes", "loadNotes", "initializeSync"}

\* C31: whenever the orchestrator issues a remote operation, the client it
\* uses was constructed for the user who is signed in at that moment: after
\* a sign-out or a sign-in as another user, nothing is issued through the
\* client of the previous user.
C31_ClientOfCurrentUser ==
  [][\A t \in Tasks :
       Issues(t) => (authUser # NoUser /\ task'[t].uid = authUser)]_vars

\* The gate that is to reject a client saveNotes call, by the documented
\* order: the limits first, then the throttle window of its key.
GateOf(rec) ==
  IF ~ValidPayload(rec.notes) THEN "validation"
  ELSE IF rec.inWindow THEN "ratelimit"
  ELSE "none"

\* C32: the client's saveNotes validates, then checks the throttle, then
\* writes: a payload over a limit is rejected with ValidationError also
\* inside the throttle window of its key, a valid one inside the window
\* with RateLimitError, and no step of a rejected call writes the store.
C32_GatesInOrder ==
  [][\A t \in Tasks :
       (/\ Acts(t) /\ task'[t].op = "client.saveNotes"
        /\ GateOf(task'[t]) # "none") =>
         /\ remote' = remote
         /\ task'[t].pc = "done" => task'[t].error = GateOf(task'[t])]_vars

\* The documents whose last-write time a step changes.
Stamped == {p \in DOMAIN saveLog' : p \notin DOMAIN saveLog \/ saveLog'[p] # saveLog[p]}

C34_SamePartition ==
  probe.fn = "keys" =>
    (probe.out.local[1] = probe.out.local[2] <=> probe.out.remote[1] = probe.out.remote[2])

\* C35: once every tab event has been processed (no updateContext() is in
\* flight), the context last passed to a registered callback is the context
\* of the tab that is active now, in whatever order the queries resolved.
C35_LatestContextWins ==
  tabs.running = <<>> =>
    \A id \in TabLive :
      tabs.registered[id].calls > 0 => tabs.registered[id].seen = tabs.url

\* C36: once the cleanup function of a registration has been called, its
\* callback runs no more, not even for an updateContext() that a message
\* started before the cleanup and that still awaits its query.
C36_NoCallbackAfterCleanup ==
  [][\A id \in DOMAIN tabs.registered :
       ~tabs.registered[id].live =>
         tabs'.registered[id].calls = tabs.registered[id].calls]_vars

\* C37: when a remote write of the sweep fails, migrateLocalNotes raises
\* (and initializeSync with it) and the step leaves the cache as it was, the
\* flag included; only a sweep all of whose writes succeeded sets the flag,
\* so an initializeSync that finds it unset runs the sweep again.
C37_FailedSweepIsRetried ==
  [][\A t \in Tasks :
       /\ (task[t].pc = "mig_write" /\ task'[t].pc = "done") =>
            /\ task'[t].error = "transport"
            /\ cache' = cache
       /\ (Acts(t) /\ task[t].pc \in {"mig_scan", "mig_write"}) => cache' = cache
       /\ (Acts(t) /\ flagUnset(cache) /\ ~flagUnset(cache')) =>
            /\ task[t].pc = "mig_flag" /\ task[t].todo = EmptyStore
            /\ task[t].error = "none"
       /\ (Acts(t) /\ task[t].pc = "init_flag" /\ flagUnset(cache)) =>
            /\ task'[t].pc = "mig_scan"
            /\ task'[t].sweep = "first"]_vars

\* C37's case: one initializeSync has failed in its sweep, and a later one
\* has swept the same entries again, with success, and set the flag.
C37_Witness ==
  \E s, t \in Tasks :
    /\ s < t
    /\ task[s].op = "initializeSync" /\ task[s].pc = "done"
    /\ task[s].error = "transport"
    /\ task[t].op = "initializeSync" /\ task[t].pc = "done"
    /\ task[t].error = "none" /\ task[t].sweep = "first"
    /\ ~flagUnset(cache)
    /\ DOMAIN remote # {}

C39_SelectedTabIsPresented ==
  (app.mounted /\ app.isAuthenticated) =>
    app.tabValue \in 0..(Len(presentedTabs(app.context)) - 1)
====
